---- MODULE Spec2Model ----
(***************************************************************************)
(* Roster building of the Solar Auxilia list builder: the REST handlers    *)
(* of api/main.py that mutate one roster (detachments and entries), the    *)
(* composition/budget validator, the points calculator and the roster's    *)
(* cached totals and validity, over a small fixed catalogue.               *)
(***************************************************************************)
EXTENDS Integers, Sequences, FiniteSets, TLC

\* ------------------------------------------------------------------ bounds
\* most RosterDetachment rows of the roster at one time
MaxDets == 2
\* most RosterEntry rows of the roster at one time
MaxEntries == 2
\* largest primary keys the store hands out before the model stops adding rows
MaxDetId == 3
MaxEntryId == 2
\* largest quantity a request asks for
MaxQty == 2
\* the longest list of selections handed to calculate_unit_cost
MaxSelections == 2
\* most calls made on one CatalogueCache
MaxCalls == 3
\* most upgrades the extractor yields for one unit
MaxYield == 2
MaxChildren == 2

\* ------------------------------------------------------- python-like values
\* None is the empty tuple, a present value v is <<v>>
None == <<>>
Some(v) == <<v>>
IsNone(o) == o = <<>>
Val(o) == o[1]

\* dict.get(k, default) on a record used as a dict
Get(d, k, default) == IF k \in DOMAIN d THEN d[k] ELSE default

\* `w in name` on a name kept as its sequence of words
Contains(words, w) == \E i \in 1..Len(words) : words[i] = w

RECURSIVE Join(_)
Join(words) ==
    IF Len(words) = 0 THEN ""
    ELSE IF Len(words) = 1 THEN words[1]
    ELSE words[1] \o " " \o Join(Tail(words))

RECURSIVE SumSeq(_)
SumSeq(s) == IF Len(s) = 0 THEN 0 ELSE s[1] + SumSeq(Tail(s))

RECURSIVE Flatten(_)
Flatten(ss) == IF Len(ss) = 0 THEN <<>> ELSE ss[1] \o Flatten(Tail(ss))

RECURSIVE SortedIds(_)
\* the ids of a table in primary-key order, the order a SELECT returns rows
SortedIds(S) ==
    IF S = {} THEN <<>>
    ELSE LET m == CHOOSE x \in S : \A y \in S : x <= y
         IN <<m>> \o SortedIds(S \ {m})

MaxOf(S) == CHOOSE x \in S : \A y \in S : y <= x

\* json.dumps(x) if x else None, and json.loads(t) if t else []
DumpsOrNone(list) == IF Len(list) = 0 THEN None ELSE Some(list)
LoadsOrEmpty(text) == IF IsNone(text) THEN <<>> ELSE Val(text)
\* a stored text that json.loads refuses with JSONDecodeError
Garbled == <<"{", "{">>
Decodes(text) == Len(text) <= 1

\* ---------------------------------------------------------------- catalogue
\* composition rules the validator falls back to
WarlordThreshold == 3000
PrimaryMax == 1

BUDGET_CATEGORIES ==
    [c \in {"6dbf-654a-f06f-2d69", "901a-6b71-7a29-4597",
            "ff44-f49f-732b-c3a7", "8a97-1585-93e7-c561"} |->
        CASE c = "6dbf-654a-f06f-2d69" -> [target |-> "auxiliary", value |-> 1]
          [] c = "901a-6b71-7a29-4597" -> [target |-> "auxiliary", value |-> 2]
          [] c = "ff44-f49f-732b-c3a7" -> [target |-> "auxiliary", value |-> 1]
          [] c = "8a97-1585-93e7-c561" -> [target |-> "apex", value |-> 1]]

BUDGET_DECREMENTS ==
    [u \in {"c857-47bd-6a4f-fcf8", "9501-add0-621d-f40f"} |->
        [target |-> "auxiliary", value |-> -1]]

\* cost type ids, the tercio unlock categories and the slot key that stands
\* for the number of copies of a detachment
COST_TYPE_AUXILIARY == "3e8e-05ee-be52-12d6"
COST_TYPE_APEX == "159d-855c-533d-f592"
VeletarisUnlock == "67d3-556b-b619-28e2"
TERCIO_UNLOCK_IDS ==
    {VeletarisUnlock, "390f-d9dc-10d8-56aa", "2a0c-b2b2-0f48-2e90",
     "847c-d351-32a7-cc2a", "3bba-e8bb-7463-b0b2", "deba-d402-8204-1d13"}
DetachmentInstances == "__detachment_instances__"

\* Unit rows: model_min, model_max, budget_categories, tercio_categories and
\* constraints are nullable columns
Unit ==
    [i \in {1, 2, 3} |->
        CASE i = 1 -> [name |-> <<"Legate", "Commander">>, unit_type |-> "Command",
                       base_cost |-> 85, model_min |-> None, model_max |-> Some(1),
                       budget_categories |-> Some(<<"6dbf-654a-f06f-2d69">>),
                       tercio_categories |-> None,
                       constraints |-> None]
          [] i = 2 -> [name |-> <<"Tactical", "Auxiliaries">>, unit_type |-> "Line",
                       base_cost |-> 100, model_min |-> Some(1), model_max |-> None,
                       budget_categories |-> None,
                       tercio_categories |-> Some(<<VeletarisUnlock>>),
                       constraints |-> None]
          [] i = 3 -> [name |-> <<"Lord", "Marshal">>, unit_type |-> "High Command",
                       base_cost |-> 150, model_min |-> Some(1), model_max |-> Some(1),
                       budget_categories |-> Some(<<"8a97-1585-93e7-c561", "unknown-cat">>),
                       tercio_categories |-> None,
                       constraints |-> Some(<<[scope |-> "roster", type |-> "max", value |-> 1],
                                              [scope |-> "parent", type |-> "min", value |-> 1]>>)]]

\* Upgrade and Weapon rows, keyed by primary key (kept as the text a request
\* carries it in)
Upgrade ==
    [i \in {"1", "2", "3"} |->
        CASE i = "1" -> [bs_id |-> "upg-blast", cost |-> 10]
          [] i = "2" -> [bs_id |-> "upg-shroud", cost |-> 5]
          [] i = "3" -> [bs_id |-> "c857-47bd-6a4f-fcf8", cost |-> 15]]

Weapon ==
    [i \in {"1"} |-> [bs_id |-> "wpn-las", cost |-> 2]]

\* UnitUpgrade rows in primary-key order
UnitUpgrade ==
    << [unit |-> 2, upgrade |-> "1", min_quantity |-> 1, max_quantity |-> 1,
        group_name |-> Some("Wargear")],
       [unit |-> 2, upgrade |-> "2", min_quantity |-> 1, max_quantity |-> 1,
        group_name |-> Some("Wargear")],
       [unit |-> 1, upgrade |-> "3", min_quantity |-> 0, max_quantity |-> 1,
        group_name |-> None] >>

\* python numbers: an int or a float, kept as twice its value so that halves
\* are exact
PyFloat(halves) == [isfloat |-> TRUE, halves |-> halves]

\* the constraint ids the modifier rules of a template refer to, and what the
\* loader maps them to: a slot key, or the number of copies of the template
LineMaxId == "0cdf-ec44-4886-b292"
ForcesId == "forces-max"
ConstraintIdMap ==
    [c \in {LineMaxId, ForcesId} |-> IF c = LineMaxId THEN "Line" ELSE DetachmentInstances]

\* a modifier rule as _parse_modifiers stores it: every number is a float
Rule(type, field, halves, conditions, repeats) ==
    [type |-> type, field |-> field, value |-> PyFloat(halves),
     conditions |-> conditions, repeats |-> repeats]
PerVeletaris == [value |-> PyFloat(2), repeats |-> PyFloat(2), field |-> "selections",
                 scope |-> "roster", childId |-> VeletarisUnlock]
\* one more copy of the template per unit tagged Veletaris Tercio Unlock
TercioInstancesRule == Rule("increment", ForcesId, 2, <<>>, <<PerVeletaris>>)

\* Detachment rows: constraints is the slot table in its stored key order,
\* unit_restrictions, costs and modifiers are nullable
Detachment ==
    [i \in {1, 2, 3, 4, 5} |->
        CASE i = 1 -> [name |-> <<"Crusade", "Primary", "Detachment">>,
                       detachment_type |-> "Primary",
                       constraints |-> << [slot |-> "Command", limits |-> [min |-> 1, max |-> 1]],
                                          [slot |-> "High Command", limits |-> [min |-> 0, max |-> 1]],
                                          [slot |-> "Line", limits |-> [min |-> 0, max |-> 3]] >>,
                       unit_restrictions |-> None,
                       costs |-> Some([auxiliary |-> 0, apex |-> 0]),
                       modifiers |-> None]
          [] i = 2 -> [name |-> <<"Warlord", "Detachment">>,
                       detachment_type |-> "Primary",
                       constraints |-> << [slot |-> "Line", limits |-> [min |-> 0, max |-> 2]] >>,
                       unit_restrictions |-> None,
                       costs |-> None,
                       modifiers |-> None]
          [] i = 3 -> [name |-> <<"Armoured", "Auxiliary", "Detachment">>,
                       detachment_type |-> "Auxiliary",
                       constraints |-> << [slot |-> "Line", limits |-> [min |-> 1, max |-> 2]] >>,
                       unit_restrictions |-> None,
                       costs |-> Some([auxiliary |-> 1]),
                       modifiers |-> None]
          [] i = 4 -> [name |-> <<"Apex", "Detachment">>,
                       detachment_type |-> "Apex",
                       constraints |-> << [slot |-> "Command - Legate Commander Only",
                                           limits |-> [min |-> 0, max |-> 1]] >>,
                       unit_restrictions |-> Some([s \in {"Command - Legate Commander Only"} |->
                                                      <<"Legate", "Commander", "Only">>]),
                       costs |-> Some([auxiliary |-> 0, apex |-> 1]),
                       modifiers |-> None]
          [] i = 5 -> [name |-> <<"Veletaris", "Tercio">>,
                       detachment_type |-> "Auxiliary",
                       constraints |-> << [slot |-> "Line", limits |-> [min |-> 0, max |-> 1]] >>,
                       unit_restrictions |-> None,
                       costs |-> Some([auxiliary |-> 0, apex |-> 0]),
                       modifiers |-> Some([rules |-> <<TercioInstancesRule>>,
                                           constraint_id_map |-> ConstraintIdMap])]]
\* the templates without modifier rules
BaseTemplates == {d \in DOMAIN Detachment : IsNone(Detachment[d].modifiers)}

\* ------------------------------------------------------------ request inputs
PointsLimits == {200, WarlordThreshold}
Labels == {"Primary", "Auxiliary"}
Quantities == 0..MaxQty
DetIds == 1..MaxDetId
EntryIds == 1..MaxEntryId
\* a primary key no catalogue table holds
NoSuchId == 0

\* bodies of the `upgrades` field of an entry request (None: field absent)
SelBlast == [upgrade_id |-> "upg-blast", bs_id |-> "upg-blast", quantity |-> 1]
SelShroud == [upgrade_id |-> "upg-shroud"]
SelAssignment == [upgrade_id |-> "c857-47bd-6a4f-fcf8", bs_id |-> "c857-47bd-6a4f-fcf8"]
\* per unit, the bodies that name upgrades the catalogue links to the unit
UpgradeBodies ==
    [u \in DOMAIN Unit |->
        IF u = 1 THEN {None, Some(<<>>), Some(<<SelAssignment>>)}
        ELSE IF u = 2 THEN {None, Some(<<>>), Some(<<SelBlast>>), Some(<<SelBlast, SelShroud>>)}
        ELSE {None}]
\* PATCH bodies: a quantity alone, a selection alone, or the largest quantity
\* together with a selection
EntryPatches ==
    [u \in DOMAIN UpgradeBodies |->
        {<<Some(q), None>> : q \in Quantities}
        \cup {<<None, b>> : b \in UpgradeBodies[u]}
        \cup {<<Some(MaxQty), b>> : b \in UpgradeBodies[u] \ {None}}]

\* ------------------------------------------------------ shared catalogues
\* the .cat files of the BSData directory as the parser reads them: the
\* shared selection entries and the shared profiles in document order, or
\* None when the parser raises; a name without a file is not in the domain
IsMalformed(file) == Len(file) = 0
CatalogueFiles ==
    [n \in {"Weapons", "Wargear", "Empty", "Broken"} |->
        CASE n = "Weapons" ->
               Some([entries |-> << [id |-> "wpn-las", name |-> "Lasrifle"],
                                    [id |-> "wpn-bolt", name |-> "Bolter"] >>,
                     profiles |-> << [id |-> "wpn-bolt", name |-> "Bolter profile"],
                                     [id |-> "prf-las", name |-> "Lasrifle profile"] >>])
          [] n = "Wargear" ->
               Some([entries |-> << [id |-> "", name |-> "Unnamed"],
                                    [id |-> "upg-blast", name |-> "Blast charger"] >>,
                     profiles |-> << >>])
          [] n = "Empty" -> Some([entries |-> << >>, profiles |-> << >>])
          [] n = "Broken" -> None]
\* the names load_shared_catalogue is called with
CatalogueNames == DOMAIN CatalogueFiles \cup {"Missing"}

\* -------------------------------------------------------------------- state
VARIABLES
    roster,             \* the Roster row
    roster_detachments, \* RosterDetachment rows by primary key
    roster_entries,     \* RosterEntry rows by primary key
    response,           \* what the last request answered
    loaded_catalogues,  \* CatalogueCache.loaded_catalogues: per name, None or the cached entries
    calls               \* the calls made on the CatalogueCache and what each returned

vars == <<roster, roster_detachments, roster_entries, response, loaded_catalogues, calls>>
\* the state of the CatalogueCache
cache == <<loaded_catalogues, calls>>

Resp(op, status, detail) ==
    [op |-> op, status |-> status, detail |-> detail, errors |-> <<>>]

\* a CatalogueCache after construction
NothingLoaded ==
    /\ loaded_catalogues = [n \in CatalogueNames |-> None]
    /\ calls = << >>

\* the state after POST /api/rosters with one of the given points limits
InitOf(limits) ==
    /\ \E pl \in limits :
         roster = [points_limit |-> pl, total_points |-> 0, is_valid |-> 0,
                   validation_errors |-> None]
    /\ roster_detachments = << >>
    /\ roster_entries = << >>
    /\ response = Resp("create_roster", 200, "")
    /\ NothingLoaded

Init == InitOf(PointsLimits)

\* ------------------------------------------------------------------ queries
\* the primary key SQLite gives the next row of a table (largest rowid + 1)
NextId(table) == IF DOMAIN table = {} THEN 1 ELSE MaxOf(DOMAIN table) + 1

\* rd.entries: the entries of one roster detachment, in primary-key order
EntriesOf(res, rdId) ==
    SortedIds({e \in DOMAIN res : res[e].roster_detachment = rdId})

SlotNames(det) == {det.constraints[i].slot : i \in 1..Len(det.constraints)}
SlotLimits(det, s) ==
    (CHOOSE c \in {det.constraints[i] : i \in 1..Len(det.constraints)} : c.slot = s).limits

\* a plausible slip: filled counts the entries of a slot, not their quantities
get_slot_status_rows(rds, res, rdId) ==
    LET det == Detachment[rds[rdId].detachment]
        mine == EntriesOf(res, rdId)
    IN [s \in SlotNames(det) |->
          [min |-> Get(SlotLimits(det, s), "min", 0),
           max |-> Get(SlotLimits(det, s), "max", 0),
           filled |-> Cardinality({i \in 1..Len(mine) : res[mine[i]].category = s}),
           restriction |-> IF IsNone(det.unit_restrictions) THEN None
                           ELSE IF s \in DOMAIN Val(det.unit_restrictions)
                                THEN Some(Val(det.unit_restrictions)[s])
                                ELSE None]]

\* RosterDetachment.get_slot_status
get_slot_status(rds, res, rdId) ==
    LET det == Detachment[rds[rdId].detachment]
        mine == EntriesOf(res, rdId)
        slot_counts(s) ==
            SumSeq([i \in 1..Len(mine) |->
                      IF res[mine[i]].category = s THEN res[mine[i]].quantity ELSE 0])
    IN [s \in SlotNames(det) |->
          [min |-> Get(SlotLimits(det, s), "min", 0),
           max |-> Get(SlotLimits(det, s), "max", 0),
           filled |-> slot_counts(s),
           restriction |-> IF IsNone(det.unit_restrictions) THEN None
                           ELSE IF s \in DOMAIN Val(det.unit_restrictions)
                                THEN Some(Val(det.unit_restrictions)[s])
                                ELSE None]]

\* a plausible slip: only the first detachment's entries are summed
calculate_total_points_first(rds, res) ==
    LET ids == SortedIds(DOMAIN rds)
        of(rdId) == LET mine == EntriesOf(res, rdId)
                    IN SumSeq([i \in 1..Len(mine) |-> res[mine[i]].total_cost])
    IN IF Len(ids) = 0 THEN 0 ELSE of(ids[1])

\* Roster.calculate_total_points: the value it stores in total_points
calculate_total_points(rds, res) ==
    LET ids == SortedIds(DOMAIN rds)
        of(rdId) == LET mine == EntriesOf(res, rdId)
                    IN SumSeq([i \in 1..Len(mine) |->
                                 IF res[mine[i]].total_cost # 0
                                 THEN res[mine[i]].total_cost ELSE 0])
    IN SumSeq([i \in 1..Len(ids) |-> of(ids[i])])

\* ---------------------------------------------------------- points calculator
\* a plausible slip: the selection's quantity is left out
SelectionCostOnce(selected) ==
    LET upgrade_id == IF Get(selected, "upgrade_id", "") # ""
                      THEN selected.upgrade_id ELSE Get(selected, "id", "")
        bs_id == Get(selected, "bs_id", "")
        byId == IF upgrade_id # "" /\ upgrade_id \in DOMAIN Upgrade
                THEN Some(Upgrade[upgrade_id]) ELSE None
        byBs(table) == LET hit == {i \in DOMAIN table : table[i].bs_id = bs_id}
                       IN IF hit = {} THEN None ELSE Some(table[CHOOSE i \in hit : TRUE])
        upgrade == IF IsNone(byId) /\ bs_id # "" THEN byBs(Upgrade) ELSE byId
        weapon == IF IsNone(byId) /\ bs_id # "" /\ IsNone(upgrade) THEN byBs(Weapon) ELSE None
    IN IF ~IsNone(weapon) THEN Val(weapon).cost
       ELSE IF ~IsNone(upgrade) THEN Val(upgrade).cost
       ELSE 0

\* one pass of the loop of PointsCalculator.calculate_unit_cost: what one
\* selection adds to the running total
SelectionCost(selected) ==
    LET upgrade_id == IF Get(selected, "upgrade_id", "") # ""
                      THEN selected.upgrade_id ELSE Get(selected, "id", "")
        bs_id == Get(selected, "bs_id", "")
        quantity == Get(selected, "quantity", 1)
        byId == IF upgrade_id # "" /\ upgrade_id \in DOMAIN Upgrade
                THEN Some(Upgrade[upgrade_id]) ELSE None
        byBs(table) == LET hit == {i \in DOMAIN table : table[i].bs_id = bs_id}
                       IN IF hit = {} THEN None ELSE Some(table[CHOOSE i \in hit : TRUE])
        upgrade == IF IsNone(byId) /\ bs_id # "" THEN byBs(Upgrade) ELSE byId
        weapon == IF IsNone(byId) /\ bs_id # "" /\ IsNone(upgrade) THEN byBs(Weapon) ELSE None
    IN IF ~IsNone(weapon) THEN Val(weapon).cost * quantity
       ELSE IF ~IsNone(upgrade) THEN Val(upgrade).cost * quantity
       ELSE 0

\* a plausible slip: the loop ends at the first selection that adds nothing,
\* as if the failed lookup were caught around the loop
calculate_unit_cost_stops(unit, selected_upgrades) ==
    LET nothing == {i \in 1..Len(selected_upgrades) : SelectionCost(selected_upgrades[i]) = 0}
        done == IF nothing = {} THEN Len(selected_upgrades)
                ELSE (CHOOSE i \in nothing : \A j \in nothing : i <= j) - 1
    IN unit.base_cost
       + SumSeq([i \in 1..done |-> SelectionCost(selected_upgrades[i])])

\* PointsCalculator.calculate_unit_cost
calculate_unit_cost(unit, selected_upgrades) ==
    unit.base_cost
    + SumSeq([i \in 1..Len(selected_upgrades) |-> SelectionCost(selected_upgrades[i])])

\* ------------------------------------------------------- upgrade-group check
RECURSIVE FirstGroups(_, _)
\* the keys of the `groups` dict in insertion order
FirstGroups(rows, seen) ==
    IF Len(rows) = 0 THEN <<>>
    ELSE IF Val(rows[1].group_name) \in seen THEN FirstGroups(Tail(rows), seen)
    ELSE <<Val(rows[1].group_name)>>
         \o FirstGroups(Tail(rows), seen \cup {Val(rows[1].group_name)})

RECURSIVE FirstSome(_)
FirstSome(opts) ==
    IF Len(opts) = 0 THEN None
    ELSE IF ~IsNone(opts[1]) THEN opts[1] ELSE FirstSome(Tail(opts))

\* validate_upgrade_selection: None when it returns, the 422 detail when it raises
validate_upgrade_selection(unit_id, selected_upgrade_bs_ids) ==
    LET IsGrouped(uu) == uu.unit = unit_id /\ ~IsNone(uu.group_name) /\ Val(uu.group_name) # ""
        rows == SelectSeq(UnitUpgrade, IsGrouped)
        names == FirstGroups(rows, {})
        first(g) == rows[CHOOSE i \in 1..Len(rows) :
                           /\ Val(rows[i].group_name) = g
                           /\ \A j \in 1..(i-1) : Val(rows[j].group_name) # g]
        bs_ids(g) == {Upgrade[rows[i].upgrade].bs_id :
                        i \in {j \in 1..Len(rows) : Val(rows[j].group_name) = g}}
        selected_set == {selected_upgrade_bs_ids[i] : i \in 1..Len(selected_upgrade_bs_ids)}
        check(g) ==
            LET count == Cardinality(selected_set \cap bs_ids(g))
            IN IF count > first(g).max_quantity
               THEN Some("Upgrade group '" \o g \o "': selected " \o ToString(count)
                         \o ", max " \o ToString(first(g).max_quantity))
               ELSE IF count < first(g).min_quantity
               THEN Some("Upgrade group '" \o g \o "': selected " \o ToString(count)
                         \o ", min " \o ToString(first(g).min_quantity) \o " required")
               ELSE None
    IN FirstSome([i \in 1..Len(names) |-> check(names[i])])

\* [u['upgrade_id'] for u in upgrades if 'upgrade_id' in u]
SelectedBsIds(upgrades) ==
    LET HasId(u) == "upgrade_id" \in DOMAIN u
        with == SelectSeq(upgrades, HasId)
    IN [i \in 1..Len(with) |-> with[i].upgrade_id]


\* ------------------------------------------------------ composition validator
\* CompositionValidator.get_budget
get_budget(r, rds, res) ==
    LET dets == SortedIds(DOMAIN rds)
        ents == SortedIds(DOMAIN res)
        costsOf(rdId) == Detachment[rds[rdId].detachment].costs
        used(kind) ==
            SumSeq([i \in 1..Len(dets) |->
                      IF IsNone(costsOf(dets[i])) THEN 0
                      ELSE Get(Val(costsOf(dets[i])), kind, 0)])
        fromCats(e, target) ==
            LET cats == Unit[res[e].unit].budget_categories
            IN IF IsNone(cats) THEN 0
               ELSE SumSeq([i \in 1..Len(Val(cats)) |->
                              IF /\ Val(cats)[i] \in DOMAIN BUDGET_CATEGORIES
                                 /\ BUDGET_CATEGORIES[Val(cats)[i]].target = target
                              THEN BUDGET_CATEGORIES[Val(cats)[i]].value * res[e].quantity
                              ELSE 0])
        fromDecrements(e) ==
            LET upgrades == LoadsOrEmpty(res[e].upgrades)
            IN SumSeq([i \in 1..Len(upgrades) |->
                         LET upg_id == Get(upgrades[i], "upgrade_id", "")
                         IN IF /\ upg_id \in DOMAIN BUDGET_DECREMENTS
                               /\ BUDGET_DECREMENTS[upg_id].target = "auxiliary"
                            THEN BUDGET_DECREMENTS[upg_id].value * Get(upgrades[i], "quantity", 1)
                            ELSE 0])
    IN [primary_count |->
            Cardinality({d \in DOMAIN rds : rds[d].detachment_type = "Primary"}),
        warlord_count |->
            Cardinality({d \in DOMAIN rds : /\ rds[d].detachment_type = "Primary"
                                            /\ Contains(rds[d].detachment_name, "Warlord")}),
        auxiliary_used |-> used("auxiliary"),
        apex_used |-> used("apex"),
        auxiliary_budget |->
            SumSeq([i \in 1..Len(ents) |-> fromCats(ents[i], "auxiliary") + fromDecrements(ents[i])]),
        apex_budget |-> SumSeq([i \in 1..Len(ents) |-> fromCats(ents[i], "apex")]),
        warlord_available |-> r.points_limit >= WarlordThreshold]

FullMsg(kind, used, avail, hint) ==
    kind \o " budget full (" \o ToString(used) \o "/" \o ToString(avail) \o "). " \o hint

\* a plausible slip: > for >=
PrimaryCheckStrict(detachment, budget) ==
    /\ detachment.detachment_type = "Primary"
    /\ ~Contains(detachment.name, "Warlord")
    /\ budget.primary_count > PrimaryMax

PrimaryCheck(detachment, budget) ==
    /\ detachment.detachment_type = "Primary"
    /\ ~Contains(detachment.name, "Warlord")
    /\ budget.primary_count >= PrimaryMax

WarlordCountCheck(budget) == budget.warlord_count >= 1

\* a plausible slip: the comparison with the remaining budget turned round
AuxiliaryCheckFlipped(aux_cost, budget) ==
    aux_cost > 0 /\ aux_cost < budget.auxiliary_budget - budget.auxiliary_used

AuxiliaryCheck(aux_cost, budget) ==
    aux_cost > 0 /\ aux_cost > budget.auxiliary_budget - budget.auxiliary_used

ApexCheck(apex_cost, budget) ==
    apex_cost > 0 /\ apex_cost > budget.apex_budget - budget.apex_used

\* CompositionValidator.can_add_detachment
can_add_detachment(r, rds, res, detachment) ==
    LET budget == get_budget(r, rds, res)
        aux_cost == IF IsNone(detachment.costs) THEN 0
                    ELSE Get(Val(detachment.costs), "auxiliary", 0)
        apex_cost == IF IsNone(detachment.costs) THEN 0
                     ELSE Get(Val(detachment.costs), "apex", 0)
    IN IF PrimaryCheck(detachment, budget)
       THEN [allowed |-> FALSE, reason |-> "Already have a Primary Detachment (max 1)"]
       ELSE IF Contains(detachment.name, "Warlord") /\ ~budget.warlord_available
       THEN [allowed |-> FALSE,
             reason |-> "Warlord Detachment requires " \o ToString(WarlordThreshold)
                        \o "+ points limit"]
       ELSE IF Contains(detachment.name, "Warlord") /\ WarlordCountCheck(budget)
       THEN [allowed |-> FALSE, reason |-> "Already have a Warlord Detachment (max 1)"]
       ELSE IF AuxiliaryCheck(aux_cost, budget)
       THEN [allowed |-> FALSE,
             reason |-> FullMsg("Auxiliary", budget.auxiliary_used, budget.auxiliary_budget,
                                "Add more Command units to unlock slots.")]
       ELSE IF ApexCheck(apex_cost, budget)
       THEN [allowed |-> FALSE,
             reason |-> FullMsg("Apex", budget.apex_used, budget.apex_budget,
                                "Add High Command units with +1 Apex to unlock slots.")]
       ELSE [allowed |-> TRUE, reason |-> ""]

Ratio(a, b) == ToString(a) \o "/" \o ToString(b)

\* a plausible slip: the empty roster is not reported
PrimaryErrorsNoZero(budget) ==
    IF budget.primary_count > PrimaryMax
    THEN <<"Too many Primary Detachments: " \o Ratio(budget.primary_count, PrimaryMax)>>
    ELSE <<>>

\* the "must have exactly 1 Primary" part of validate_composition
PrimaryErrors(budget) ==
    IF budget.primary_count = 0
    THEN <<"Roster must have a Primary Detachment">>
    ELSE IF budget.primary_count > PrimaryMax
    THEN <<"Too many Primary Detachments: " \o Ratio(budget.primary_count, PrimaryMax)>>
    ELSE <<>>

\* CompositionValidator.validate_composition
validate_composition(r, rds, res) ==
    LET budget == get_budget(r, rds, res)
    IN PrimaryErrors(budget)
       \o (IF budget.auxiliary_used > budget.auxiliary_budget
           THEN <<"Auxiliary budget exceeded: "
                  \o Ratio(budget.auxiliary_used, budget.auxiliary_budget)>>
           ELSE <<>>)
       \o (IF budget.apex_used > budget.apex_budget
           THEN <<"Apex budget exceeded: " \o Ratio(budget.apex_used, budget.apex_budget)>>
           ELSE <<>>)
       \o (IF budget.warlord_count > 0 /\ ~budget.warlord_available
           THEN <<"Warlord Detachment requires " \o ToString(WarlordThreshold)
                  \o "+ points limit">>
           ELSE <<>>)

\* ---------------------------------------------------------- roster validation
\* a plausible slip: the slot minimums are not checked
rd_validate_max_only(rds, res, rdId) ==
    LET name == Join(rds[rdId].detachment_name)
        slots == get_slot_status(rds, res, rdId)
        over == SortedIds({i \in 1..Len(Detachment[rds[rdId].detachment].constraints) :
                    LET st == slots[Detachment[rds[rdId].detachment].constraints[i].slot]
                    IN st.filled > st.max})
    IN [k \in 1..Len(over) |->
          LET s == Detachment[rds[rdId].detachment].constraints[over[k]].slot
          IN "[" \o name \o "] " \o s \o ": maximum " \o ToString(slots[s].max)
             \o " allowed, found " \o ToString(slots[s].filled)]

\* RosterDetachment.validate
rd_validate(rds, res, rdId) ==
    LET det == Detachment[rds[rdId].detachment]
        name == Join(rds[rdId].detachment_name)
        slots == get_slot_status(rds, res, rdId)
        mine == EntriesOf(res, rdId)
        ofSlot(s) ==
            (IF slots[s].filled < slots[s].min
             THEN <<"[" \o name \o "] " \o s \o ": minimum " \o ToString(slots[s].min)
                    \o " required, found " \o ToString(slots[s].filled)>>
             ELSE <<>>)
            \o (IF slots[s].filled > slots[s].max
                THEN <<"[" \o name \o "] " \o s \o ": maximum " \o ToString(slots[s].max)
                       \o " allowed, found " \o ToString(slots[s].filled)>>
                ELSE <<>>)
        ofEntry(e) ==
            IF res[e].category \notin SlotNames(det)
            THEN <<"[" \o name \o "] " \o Join(res[e].unit_name) \o ": slot '"
                   \o res[e].category \o "' not available in this detachment">>
            ELSE <<>>
    IN Flatten([i \in 1..Len(det.constraints) |-> ofSlot(det.constraints[i].slot)])
       \o Flatten([i \in 1..Len(mine) |-> ofEntry(mine[i])])

\* Roster.validate: the error list it builds
roster_validate(r, rds, res) ==
    LET ids == SortedIds(DOMAIN rds)
    IN validate_composition(r, rds, res)
       \o Flatten([i \in 1..Len(ids) |-> rd_validate(rds, res, ids[i])])
       \o (IF r.total_points > r.points_limit
           THEN <<"Over points limit: " \o Ratio(r.total_points, r.points_limit)>>
           ELSE <<>>)

\* is_valid and validation_errors as Roster.validate stores them
ValidityOf(all_errors) ==
    [is_valid |-> IF Len(all_errors) = 0 THEN 1 ELSE 0,
     validation_errors |-> DumpsOrNone(all_errors)]


\* -------------------------------------------------------- modifier evaluator
\* int(x): truncation toward zero
PyTrunc(x) == IF x.halves >= 0 THEN x.halves \div 2 ELSE -((-x.halves) \div 2)
\* round(base * x) for an int base: to the nearest int, ties to the even one
PyRoundTimes(base, x) ==
    LET p == base * x.halves
        lo == p \div 2
    IN IF p % 2 = 0 THEN lo ELSE IF lo % 2 = 0 THEN lo ELSE lo + 1
PyAdd(x, y) == [isfloat |-> x.isfloat \/ y.isfloat, halves |-> x.halves + y.halves]
\* x * n for an int n
PyTimes(x, n) == [isfloat |-> x.isfloat, halves |-> x.halves * n]

\* a dict that remembers insertion order: a sequence of key/value pairs
DictGet(d, k, default) ==
    IF \E i \in 1..Len(d) : d[i].key = k
    THEN d[CHOOSE i \in 1..Len(d) : d[i].key = k].value
    ELSE default
DictSet(d, k, v) ==
    IF \E i \in 1..Len(d) : d[i].key = k
    THEN [i \in 1..Len(d) |-> IF d[i].key = k THEN [key |-> k, value |-> v] ELSE d[i]]
    ELSE Append(d, [key |-> k, value |-> v])
\* dict[k] = v on a record used as a dict
Put(d, k, v) == [x \in DOMAIN d \cup {k} |-> IF x = k THEN v ELSE d[x]]

\* a plausible slip: every entry counts once, whatever its quantity
category_counts_entries(res, cat_id) ==
    LET ids == SortedIds(DOMAIN res)
        tags(e) == LoadsOrEmpty(Unit[res[e].unit].tercio_categories)
        times(e) == Cardinality({i \in 1..Len(tags(e)) : tags(e)[i] = cat_id})
    IN SumSeq([i \in 1..Len(ids) |-> times(ids[i])])

\* ModifierEvaluator.category_counts[cat_id]: the quantities of the entries
\* whose unit carries the category
category_counts(res, cat_id) ==
    LET ids == SortedIds(DOMAIN res)
        tags(e) == LoadsOrEmpty(Unit[res[e].unit].tercio_categories)
        times(e) == Cardinality({i \in 1..Len(tags(e)) : tags(e)[i] = cat_id})
    IN SumSeq([i \in 1..Len(ids) |-> times(ids[i]) * res[ids[i]].quantity])

\* ModifierEvaluator._get_selection_count; the Roster model has no doctrine
\* column, so a doctrine id counts 0 like any other id
get_selection_count(res, child_id) ==
    IF child_id \in TERCIO_UNLOCK_IDS THEN category_counts(res, child_id) ELSE 0

\* ModifierEvaluator._check_conditions
check_conditions(res, conditions) ==
    \A i \in 1..Len(conditions) :
        LET cond == conditions[i]
            actual == 2 * get_selection_count(res, cond.childId)
            threshold == cond.value.halves
        IN \/ /\ cond.field = "selections"
              /\ cond.scope \in {"primary-catalogue", "parent"}
              /\ cond.childId = "7851-69ac-f701-034e"
           \/ /\ cond.type = "equalTo" => actual = threshold
              /\ cond.type = "lessThan" => actual < threshold
              /\ cond.type = "atLeast" => actual >= threshold
              /\ cond.type = "greaterThan" => actual > threshold

\* ModifierEvaluator._calc_repeats
calc_repeats(res, repeats) ==
    IF Len(repeats) = 0 THEN 1
    ELSE SumSeq([i \in 1..Len(repeats) |->
                   get_selection_count(res, repeats[i].childId) * PyTrunc(repeats[i].repeats)])

IsCostField(field) == field \in {COST_TYPE_AUXILIARY, COST_TYPE_APEX}

\* the loop over the rules of evaluate_detachment: the adjustments it has
\* collected per constraint id and per cost type after the given rules
RECURSIVE Adjustments(_, _)
Adjustments(res, rules) ==
    IF Len(rules) = 0 THEN [field |-> <<>>, cost |-> <<>>]
    ELSE
    LET before == Adjustments(res, SubSeq(rules, 1, Len(rules) - 1))
        rule == rules[Len(rules)]
        which == IF IsCostField(rule.field) THEN "cost" ELSE "field"
        effective_value == PyTimes(rule.value, calc_repeats(res, rule.repeats))
    IN IF ~check_conditions(res, rule.conditions) THEN before
       ELSE IF rule.type = "increment"
       THEN [before EXCEPT ![which] =
                DictSet(@, rule.field, PyAdd(DictGet(@, rule.field, [isfloat |-> FALSE, halves |-> 0]), effective_value))]
       ELSE IF rule.type = "set"
       THEN [before EXCEPT ![which] = DictSet(@, rule.field, rule.value)]
       ELSE before

\* the slot table after the adjustments of the given constraint ids, applied
\* in the order the ids entered the dict
RECURSIVE AdjustedConstraints(_, _, _)
AdjustedConstraints(base, id_map, field_adjustments) ==
    IF Len(field_adjustments) = 0 THEN base
    ELSE
    LET before == AdjustedConstraints(base, id_map,
                                      SubSeq(field_adjustments, 1, Len(field_adjustments) - 1))
        last == field_adjustments[Len(field_adjustments)]
        slot_key == Get(id_map, last.key, "")
    IN IF slot_key = "" \/ slot_key = DetachmentInstances THEN before
       ELSE [i \in 1..Len(before) |->
               IF before[i].slot = slot_key
               THEN [before[i] EXCEPT !.limits =
                        Put(@, "max", MaxOf({0, @.max + PyTrunc(last.value)}))]
               ELSE before[i]]

\* the copies of the template the roster may hold: 999 unless a constraint id
\* that stands for the copies was adjusted
RECURSIVE MaxInstances(_, _)
MaxInstances(id_map, field_adjustments) ==
    IF Len(field_adjustments) = 0 THEN 999
    ELSE
    LET last == field_adjustments[Len(field_adjustments)]
    IN IF Get(id_map, last.key, "") = DetachmentInstances
       THEN MaxOf({0, PyTrunc(last.value)})
       ELSE MaxInstances(id_map, SubSeq(field_adjustments, 1, Len(field_adjustments) - 1))

\* one adjusted cost: a float below 1 multiplies the base cost, any other
\* value is added to it
AdjustedCost(base, value) ==
    IF value.isfloat /\ value.halves < 2
    THEN MaxOf({0, PyRoundTimes(base, value)})
    ELSE base + PyTrunc(value)

RECURSIVE AdjustedCosts(_, _)
AdjustedCosts(base_costs, cost_adjustments) ==
    IF Len(cost_adjustments) = 0 THEN base_costs
    ELSE
    LET before == AdjustedCosts(base_costs, SubSeq(cost_adjustments, 1, Len(cost_adjustments) - 1))
        last == cost_adjustments[Len(cost_adjustments)]
        kind == IF last.key = COST_TYPE_AUXILIARY THEN "auxiliary" ELSE "apex"
    IN Put(before, kind, AdjustedCost(Get(base_costs, kind, 0), last.value))

\* a plausible slip: a template without rules gets the instances of a
\* template none of whose rules applied to a slot
evaluate_detachment_unavailable(res, detachment) ==
    LET base_constraints == detachment.constraints
        base_costs == IF IsNone(detachment.costs) THEN <<>> ELSE Val(detachment.costs)
    IN IF IsNone(detachment.modifiers) \/ ~Decodes(detachment.modifiers)
       THEN [constraints |-> base_constraints, costs |-> base_costs, max_instances |-> 0]
       ELSE
       LET mod_data == Val(detachment.modifiers)
           rules == Get(mod_data, "rules", <<>>)
           constraint_id_map == Get(mod_data, "constraint_id_map", <<>>)
           adjustments == Adjustments(res, rules)
       IN [constraints |-> AdjustedConstraints(base_constraints, constraint_id_map,
                                               adjustments.field),
           costs |-> AdjustedCosts(base_costs, adjustments.cost),
           max_instances |-> MaxInstances(constraint_id_map, adjustments.field)]

\* ModifierEvaluator.evaluate_detachment
evaluate_detachment(res, detachment) ==
    LET base_constraints == detachment.constraints
        base_costs == IF IsNone(detachment.costs) THEN <<>> ELSE Val(detachment.costs)
    IN IF IsNone(detachment.modifiers) \/ ~Decodes(detachment.modifiers)
       THEN [constraints |-> base_constraints, costs |-> base_costs, max_instances |-> 999]
       ELSE
       LET mod_data == Val(detachment.modifiers)
           rules == Get(mod_data, "rules", <<>>)
           constraint_id_map == Get(mod_data, "constraint_id_map", <<>>)
           adjustments == Adjustments(res, rules)
       IN [constraints |-> AdjustedConstraints(base_constraints, constraint_id_map,
                                               adjustments.field),
           costs |-> AdjustedCosts(base_costs, adjustments.cost),
           max_instances |-> MaxInstances(constraint_id_map, adjustments.field)]

\* ------------------------------------------------------------------ handlers
\* get_budget decodes the upgrades text of every entry outside any try
get_budget_raises(res) == \E e \in DOMAIN res : ~Decodes(res[e].upgrades)

Reject(op, status, detail) ==
    /\ response' = Resp(op, status, detail)
    /\ UNCHANGED <<roster, roster_detachments, roster_entries>>

\* POST /api/rosters/{roster_id}/detachments
add_detachment_to_roster(detachment_id, detachment_type) ==
    LET op == "add_detachment" IN
    IF detachment_id \notin DOMAIN Detachment
    THEN Reject(op, 404, "Detachment not found")
    ELSE
    IF get_budget_raises(roster_entries)
    THEN Reject(op, 500, "Internal Server Error")
    ELSE
    LET detachment == Detachment[detachment_id]
        verdict == can_add_detachment(roster, roster_detachments, roster_entries, detachment)
        existing_count == Cardinality(DOMAIN roster_detachments)
        id == NextId(roster_detachments)
    IN IF ~verdict.allowed
       THEN Reject(op, 422, verdict.reason)
       ELSE /\ roster_detachments' =
                 [d \in DOMAIN roster_detachments \cup {id} |->
                    IF d = id
                    THEN [detachment |-> detachment_id,
                          detachment_name |-> detachment.name,
                          detachment_type |-> detachment_type,
                          sort_order |-> existing_count]
                    ELSE roster_detachments[d]]
            /\ response' = Resp(op, 200, "")
            /\ UNCHANGED <<roster, roster_entries>>

\* DELETE /api/rosters/{roster_id}/detachments/{det_id}
remove_detachment_from_roster(det_id) ==
    LET op == "remove_detachment" IN
    IF det_id \notin DOMAIN roster_detachments
    THEN Reject(op, 404, "Detachment not found in roster")
    ELSE
    LET rds == [d \in DOMAIN roster_detachments \ {det_id} |-> roster_detachments[d]]
        res == [e \in {x \in DOMAIN roster_entries :
                         roster_entries[x].roster_detachment # det_id} |-> roster_entries[e]]
    IN /\ roster_detachments' = rds
       /\ roster_entries' = res
       /\ roster' = [roster EXCEPT !.total_points = calculate_total_points(rds, res)]
       /\ response' = Resp(op, 200, "")

\* the roster-wide unique unit limit of add_entry_to_detachment: None when it
\* passes, the 422 detail when it raises
RosterLimit(res, unit_id) ==
    LET unit == Unit[unit_id]
        unit_constraints == LoadsOrEmpty(unit.constraints)
        existing_count == Cardinality({e \in DOMAIN res : res[e].unit = unit_id})
        check(c) ==
            IF /\ Get(c, "scope", "") = "roster"
               /\ Get(c, "type", "") = "max"
               /\ existing_count >= c.value
            THEN Some("'" \o Join(unit.name) \o "' limited to " \o ToString(c.value)
                      \o " per roster")
            ELSE None
    IN FirstSome([i \in 1..Len(unit_constraints) |-> check(unit_constraints[i])])

\* a plausible slip: the upper bound is not checked
ModelBoundsNoMax(unit, qty) ==
    LET model_min == IF IsNone(unit.model_min) \/ unit.model_min = Some(0)
                     THEN 1 ELSE Val(unit.model_min)
    IN IF qty < model_min
       THEN Some("'" \o Join(unit.name) \o "' requires at least " \o ToString(model_min)
                 \o " models (got " \o ToString(qty) \o ")")
       ELSE None

\* the model-count check add_entry_to_detachment and update_entry_in_detachment
\* share: None when it passes, the 422 detail when it raises
ModelBounds(unit, qty) ==
    LET model_min == IF IsNone(unit.model_min) \/ unit.model_min = Some(0)
                     THEN 1 ELSE Val(unit.model_min)
        model_max == unit.model_max
    IN IF qty < model_min
       THEN Some("'" \o Join(unit.name) \o "' requires at least " \o ToString(model_min)
                 \o " models (got " \o ToString(qty) \o ")")
       ELSE IF ~IsNone(model_max) /\ qty > Val(model_max)
       THEN Some("'" \o Join(unit.name) \o "' allows at most " \o ToString(Val(model_max))
                 \o " models (got " \o ToString(qty) \o ")")
       ELSE None

\* the upgrade check of both entry handlers: skipped for an empty selection
UpgradeCheck(unit_id, upgrades) ==
    IF Len(upgrades) # 0
    THEN validate_upgrade_selection(unit_id, SelectedBsIds(upgrades))
    ELSE None

\* POST /api/rosters/{roster_id}/detachments/{det_id}/entries
add_entry_to_detachment(det_id, unit_id, quantity, body_upgrades) ==
    LET op == "add_entry" IN
    IF det_id \notin DOMAIN roster_detachments
    THEN Reject(op, 404, "Detachment not found in roster")
    ELSE IF unit_id \notin DOMAIN Unit
    THEN Reject(op, 404, "Unit not found")
    ELSE
    LET rd == roster_detachments[det_id]
        unit == Unit[unit_id]
        slots == get_slot_status(roster_detachments, roster_entries, det_id)
        unit_type == unit.unit_type
        rdName == Join(rd.detachment_name)
    IN IF unit_type \notin DOMAIN slots
       THEN Reject(op, 422, "'" \o Join(unit.name) \o "' (" \o unit_type
                            \o ") has no slot in " \o rdName)
       ELSE
       LET slot == slots[unit_type]
           limit == RosterLimit(roster_entries, unit_id)
           bounds == ModelBounds(unit, quantity)
           upgrades == LoadsOrEmpty(body_upgrades)
           group == UpgradeCheck(unit_id, upgrades)
           total_cost == calculate_unit_cost(unit, upgrades) * quantity
           id == NextId(roster_entries)
       IN IF slot.filled >= slot.max
          THEN Reject(op, 422, unit_type \o " slot full (" \o Ratio(slot.filled, slot.max)
                               \o ") in " \o rdName)
          \* FOCValidator has no _matches_restriction: the call raises
          \* AttributeError for every slot that carries a restriction
          ELSE IF ~IsNone(slot.restriction)
          THEN Reject(op, 500, "Internal Server Error")
          ELSE IF ~IsNone(limit) THEN Reject(op, 422, Val(limit))
          ELSE IF ~IsNone(bounds) THEN Reject(op, 422, Val(bounds))
          ELSE IF ~IsNone(group) THEN Reject(op, 422, Val(group))
          ELSE
          LET res == [e \in DOMAIN roster_entries \cup {id} |->
                        IF e = id
                        THEN [roster_detachment |-> det_id,
                              unit |-> unit_id,
                              unit_name |-> unit.name,
                              quantity |-> quantity,
                              upgrades |-> DumpsOrNone(upgrades),
                              total_cost |-> total_cost,
                              category |-> unit.unit_type]
                        ELSE roster_entries[e]]
          IN /\ roster_entries' = res
             /\ roster' = [roster EXCEPT !.total_points =
                                            calculate_total_points(roster_detachments, res)]
             /\ response' = Resp(op, 200, "")
             /\ UNCHANGED roster_detachments


\* DELETE /api/rosters/{roster_id}/detachments/{det_id}/entries/{entry_id}
delete_entry_from_detachment(det_id, entry_id) ==
    LET op == "delete_entry" IN
    IF det_id \notin DOMAIN roster_detachments
    THEN Reject(op, 404, "Detachment not found in roster")
    ELSE IF \/ entry_id \notin DOMAIN roster_entries
            \/ roster_entries[entry_id].roster_detachment # det_id
    THEN Reject(op, 404, "Entry not found")
    ELSE
    LET res == [e \in DOMAIN roster_entries \ {entry_id} |-> roster_entries[e]]
    IN /\ roster_entries' = res
       /\ roster' = [roster EXCEPT !.total_points =
                                      calculate_total_points(roster_detachments, res)]
       /\ response' = Resp(op, 200, "")
       /\ UNCHANGED roster_detachments

\* a plausible slip: the cached cost is kept
UpdatedCostStale(unit, entry) == entry.total_cost

\* a plausible slip: the entry is saved as soon as its quantity is set
PersistedAtRaiseSaved(res, entry_id, in_memory) == [res EXCEPT ![entry_id] = in_memory]

\* the stored entries at the moment validate_upgrade_selection raises in
\* update_entry_in_detachment: the quantity is set on the in-memory entry
\* only, entry.save() has not run
PersistedAtRaise(res, entry_id, in_memory) == res

\* the cost update_entry_in_detachment stores with the entry it saves
UpdatedCost(unit, entry) ==
    calculate_unit_cost(unit, LoadsOrEmpty(entry.upgrades)) * entry.quantity

\* PATCH /api/rosters/{roster_id}/detachments/{det_id}/entries/{entry_id}
update_entry_in_detachment(det_id, entry_id, body_quantity, body_upgrades) ==
    LET op == "update_entry" IN
    IF det_id \notin DOMAIN roster_detachments
    THEN Reject(op, 404, "Detachment not found in roster")
    ELSE IF \/ entry_id \notin DOMAIN roster_entries
            \/ roster_entries[entry_id].roster_detachment # det_id
    THEN Reject(op, 404, "Entry not found")
    ELSE
    LET entry == roster_entries[entry_id]
        unit == Unit[entry.unit]
        bounds == IF IsNone(body_quantity) THEN None
                  ELSE ModelBounds(unit, Val(body_quantity))
        group == IF IsNone(body_upgrades) THEN None
                 ELSE UpgradeCheck(entry.unit, Val(body_upgrades))
        withQty == IF IsNone(body_quantity) THEN entry
                   ELSE [entry EXCEPT !.quantity = Val(body_quantity)]
        withUpg == IF IsNone(body_upgrades) THEN withQty
                   ELSE [withQty EXCEPT !.upgrades = DumpsOrNone(Val(body_upgrades))]
        saved == [withUpg EXCEPT !.total_cost = UpdatedCost(unit, withUpg)]
        res == [roster_entries EXCEPT ![entry_id] = saved]
    IN IF ~IsNone(bounds) THEN Reject(op, 422, Val(bounds))
       ELSE IF ~IsNone(group)
       THEN /\ response' = Resp(op, 422, Val(group))
            /\ roster_entries' = PersistedAtRaise(roster_entries, entry_id, withQty)
            /\ UNCHANGED <<roster, roster_detachments>>
       ELSE IF ~Decodes(withUpg.upgrades)
       THEN Reject(op, 500, "Internal Server Error")
       ELSE /\ roster_entries' = res
            /\ roster' = [roster EXCEPT !.total_points =
                                           calculate_total_points(roster_detachments, res)]
            /\ response' = Resp(op, 200, "")
            /\ UNCHANGED roster_detachments

\* POST /api/rosters/{roster_id}/validate
validate_roster ==
    IF get_budget_raises(roster_entries)
    THEN Reject("validate", 500, "Internal Server Error")
    ELSE
    LET all_errors == roster_validate(roster, roster_detachments, roster_entries)
        validity == ValidityOf(all_errors)
    IN /\ roster' = [roster EXCEPT !.is_valid = validity.is_valid,
                                   !.validation_errors = validity.validation_errors]
       /\ response' = [op |-> "validate", status |-> 200, detail |-> "",
                       errors |-> all_errors]
       /\ UNCHANGED <<roster_detachments, roster_entries>>

\* ------------------------------------------------------------ catalogue cache
\* the entry cache load_shared_catalogue builds from a parsed file: entries
\* with an id by id, then the profiles with an id, marked as profiles
RECURSIVE CacheAll(_, _)
CacheAll(entry_cache, items) ==
    IF Len(items) = 0 THEN entry_cache
    ELSE CacheAll(IF items[1].id # "" THEN DictSet(entry_cache, items[1].id, items[1])
                  ELSE entry_cache,
                  Tail(items))
EntryCache(file) ==
    LET profiles == [i \in 1..Len(file.profiles) |->
                        [entry_type |-> "profile", id |-> file.profiles[i].id,
                         name |-> file.profiles[i].name]]
    IN CacheAll(CacheAll(<<>>, file.entries), profiles)

Call(op, catalogue_name, returned, parsed) ==
    [op |-> op, catalogue_name |-> catalogue_name, returned |-> returned, parsed |-> parsed]

\* a plausible slip: the check for an already loaded catalogue is missing
load_shared_catalogue_again(catalogue_name) ==
    LET op == "load_shared_catalogue" IN
    IF catalogue_name \notin DOMAIN CatalogueFiles
    THEN /\ calls' = Append(calls, Call(op, catalogue_name, 0, FALSE))
         /\ UNCHANGED loaded_catalogues
    ELSE IF IsMalformed(CatalogueFiles[catalogue_name])
    THEN /\ calls' = Append(calls, Call(op, catalogue_name, 0, TRUE))
         /\ UNCHANGED loaded_catalogues
    ELSE LET entry_cache == EntryCache(Val(CatalogueFiles[catalogue_name]))
         IN /\ loaded_catalogues' = [loaded_catalogues EXCEPT ![catalogue_name] = Some(entry_cache)]
            /\ calls' = Append(calls, Call(op, catalogue_name, Len(entry_cache), TRUE))

\* CatalogueCache.load_shared_catalogue; `parsed` records that the call
\* constructed a BattleScribeParser on the file
load_shared_catalogue(catalogue_name) ==
    LET op == "load_shared_catalogue" IN
    IF ~IsNone(loaded_catalogues[catalogue_name])
    THEN /\ calls' = Append(calls, Call(op, catalogue_name,
                                        Len(Val(loaded_catalogues[catalogue_name])), FALSE))
         /\ UNCHANGED loaded_catalogues
    ELSE IF catalogue_name \notin DOMAIN CatalogueFiles
    THEN /\ calls' = Append(calls, Call(op, catalogue_name, 0, FALSE))
         /\ UNCHANGED loaded_catalogues
    ELSE IF IsMalformed(CatalogueFiles[catalogue_name])
    THEN /\ calls' = Append(calls, Call(op, catalogue_name, 0, TRUE))
         /\ UNCHANGED loaded_catalogues
    ELSE LET entry_cache == EntryCache(Val(CatalogueFiles[catalogue_name]))
         IN /\ loaded_catalogues' = [loaded_catalogues EXCEPT ![catalogue_name] = Some(entry_cache)]
            /\ calls' = Append(calls, Call(op, catalogue_name, Len(entry_cache), TRUE))

\* CatalogueCache.clear
clear ==
    /\ loaded_catalogues' = [n \in CatalogueNames |-> None]
    /\ calls' = Append(calls, Call("clear", "", 0, FALSE))

\* ----------------------------------------------------------- catalogue loader
\* the loop of populate_database over the units and the upgrades the
\* extractor yields for each (pairs [unit, uu] in that order): the bs_id
\* column of the Upgrade table in primary-key order and the links collected
\* after the given pairs
\* the (child_min, child_max) the loop of _extract_model_bounds reads from the
\* parsed constraints of one child: the last min and the last max on the
\* selections of the parent, 0 and None without one
child_bounds(constraints) ==
    LET of(type) == {i \in 1..Len(constraints) :
                        /\ constraints[i].field = "selections"
                        /\ constraints[i].scope = "parent"
                        /\ constraints[i].type = type}
        last(type) == constraints[MaxOf(of(type))].value
    IN [child_min |-> IF of("min") = {} THEN 0 ELSE last("min"),
        child_max |-> IF of("max") = {} THEN None ELSE Some(last("max"))]

\* SolarAuxiliaCatalogue._extract_model_bounds on the parsed constraints of
\* the model children of a unit, in document order
extract_model_bounds(model_children) ==
    LET n == Len(model_children)
        b == [i \in 1..n |-> child_bounds(model_children[i])]
        unbounded == {i \in 1..n : IsNone(b[i].child_max)}
        min_upto(k) == SumSeq([i \in 1..k |-> b[i].child_min])
        total_max == SumSeq([i \in 1..n |-> Val(b[i].child_max)])
    IN IF n = 0 THEN [model_min |-> 1, model_max |-> None]
       ELSE IF unbounded # {}
       \* the loop returns at the first child without a max
       THEN LET total_min == min_upto(CHOOSE k \in unbounded : \A j \in unbounded : k <= j)
            IN [model_min |-> IF total_min = 0 THEN 1 ELSE total_min, model_max |-> None]
       ELSE [model_min |-> MaxOf({min_upto(n), 1}),
             model_max |-> IF total_max = 0 THEN None ELSE Some(total_max)]

\* a plausible slip: the row is created without looking for it first
creates_upgrade_unchecked(bs_ids, uu) ==
    \/ Get(uu, "is_inline", FALSE)
    \/ \E w \in DOMAIN Weapon : Weapon[w].bs_id = uu.upgrade_id

\* whether the loop creates an Upgrade row for uu: no row carries its id yet,
\* and it is an inline definition or the id of a Weapon row
creates_upgrade(bs_ids, uu) ==
    /\ \A i \in 1..Len(bs_ids) : bs_ids[i] # uu.upgrade_id
    /\ \/ Get(uu, "is_inline", FALSE)
       \/ \E w \in DOMAIN Weapon : Weapon[w].bs_id = uu.upgrade_id

RECURSIVE LinkLoop(_)
LinkLoop(pairs) ==
    IF Len(pairs) = 0
    THEN [bs_ids |-> [i \in 1..Cardinality(DOMAIN Upgrade) |-> Upgrade[ToString(i)].bs_id],
          links |-> <<>>]
    ELSE
    LET before == LinkLoop(SubSeq(pairs, 1, Len(pairs) - 1))
        uu == pairs[Len(pairs)].uu
        found == {i \in 1..Len(before.bs_ids) : before.bs_ids[i] = uu.upgrade_id}
        creates == creates_upgrade(before.bs_ids, uu)
        table == IF creates THEN Append(before.bs_ids, uu.upgrade_id) ELSE before.bs_ids
        upgrade == IF found # {} THEN Some(CHOOSE i \in found : TRUE)
                   ELSE IF creates THEN Some(Len(table)) ELSE None
    IN [bs_ids |-> table,
        links |-> IF IsNone(upgrade) THEN before.links
                  ELSE Append(before.links,
                              [unit |-> pairs[Len(pairs)].unit,
                               upgrade |-> ToString(Val(upgrade)),
                               min_quantity |-> Get(uu, "min_quantity", 0),
                               max_quantity |-> Get(uu, "max_quantity", 1),
                               group_name |-> Get(uu, "group_name", None),
                               constraints |-> None])]

\* a plausible slip: every collected link is inserted
unique_links_all(unit_upgrade_links) == unit_upgrade_links

\* step 4 of populate_database: the first link of every (unit, upgrade) key,
\* in the order the links were collected
unique_links(unit_upgrade_links) ==
    LET firsts == {i \in 1..Len(unit_upgrade_links) :
                     \A j \in 1..(i - 1) :
                        \/ unit_upgrade_links[j].unit # unit_upgrade_links[i].unit
                        \/ unit_upgrade_links[j].upgrade # unit_upgrade_links[i].upgrade}
        kept == SortedIds(firsts)
    IN [k \in 1..Len(kept) |-> unit_upgrade_links[kept[k]]]

\* the catalogue tables before a load: the keys of the Unit, Weapon and
\* Detachment rows, the bs_id column of Upgrade and the UnitUpgrade rows
StoredCatalogue ==
    [Unit |-> DOMAIN Unit, Weapon |-> DOMAIN Weapon,
     Upgrade |-> [i \in 1..Cardinality(DOMAIN Upgrade) |-> Upgrade[ToString(i)].bs_id],
     UnitUpgrade |-> UnitUpgrade, Detachment |-> DOMAIN Detachment]

\* SolarAuxiliaCatalogue.populate_database for what the extractor yields per
\* unit: whether the call raises and the tables it leaves. failure names the
\* step that raises: "weapons" the insert of step 1, "gst_missing" and
\* "gst_unparsable" the DetachmentLoader of step 5, "none" no step
populate_database(extracted, failure) ==
    LET pairs == Flatten([u \in 1..Len(extracted) |->
                            [i \in 1..Len(extracted[u]) |-> [unit |-> u, uu |-> extracted[u][i]]]])
        loop == LinkLoop(pairs)
    IN IF failure = "weapons"
       \* the exception leaves db.atomic(): rolled back
       THEN [raised |-> TRUE, tables |-> StoredCatalogue]
       \* the except around step 5 logs a warning; the block commits
       ELSE [raised |-> FALSE,
             tables |-> [Unit |-> 1..Len(extracted), Weapon |-> DOMAIN Weapon,
                         Upgrade |-> loop.bs_ids,
                         UnitUpgrade |-> unique_links(loop.links),
                         Detachment |-> IF failure = "none" THEN DOMAIN Detachment ELSE {}]]

\* ------------------------------------------------------------- specification
\* A request answered with an error leaves every row as it was and no handler
\* reads the last response, so what follows an error is what follows the
\* state before it: a run is followed up to its first error.
Served == response.status = 200

\* the rows a step leaves stay within the bounds of the model
Within(maxDets, maxEntries) ==
    /\ Cardinality(DOMAIN roster_detachments') <= maxDets
    /\ Cardinality(DOMAIN roster_entries') <= maxEntries
    /\ \A d \in DOMAIN roster_detachments' : d <= MaxDetId
    /\ \A e \in DOMAIN roster_entries' : e <= MaxEntryId

\* requests against a row that does not exist answer 404 whatever their body,
\* so one body stands for all of them
AddDetachmentOf(bodies) ==
    \E body \in bodies : add_detachment_to_roster(body[1], body[2])

RemoveDetachmentOf == \E det_id \in DetIds : remove_detachment_from_roster(det_id)

\* offers[u]: the `upgrades` bodies the requests carry for unit u
AddEntryOf(offers, quantities) ==
    \E det_id \in DetIds :
        IF det_id \in DOMAIN roster_detachments
        THEN \E unit_id \in DOMAIN offers, quantity \in quantities :
                \E body_upgrades \in offers[unit_id] :
                    add_entry_to_detachment(det_id, unit_id, quantity, body_upgrades)
        ELSE add_entry_to_detachment(det_id, NoSuchId, 0, None)

DeleteEntryOf ==
    \E det_id \in DetIds, entry_id \in EntryIds : delete_entry_from_detachment(det_id, entry_id)

\* patches[u]: the <<quantity, upgrades>> bodies the requests carry for an
\* entry of unit u
UpdateEntryOf(patches) ==
    \E det_id \in DetIds, entry_id \in EntryIds :
        IF /\ det_id \in DOMAIN roster_detachments
           /\ entry_id \in DOMAIN roster_entries
           /\ roster_entries[entry_id].roster_detachment = det_id
        THEN \E patch \in patches[roster_entries[entry_id].unit] :
                update_entry_in_detachment(det_id, entry_id, patch[1], patch[2])
        ELSE update_entry_in_detachment(det_id, entry_id, None, None)

\* patches that only change the selection
SelectionPatches(offers) == [u \in DOMAIN offers |-> {<<None, b>> : b \in offers[u]}]

\* --- Spec: a list built the way the front end builds it (each detachment
\* sent with its template's own type), every unit, quantity and selection
BuilderTemplates == {1, 3}
OwnTypeBodies == {<<d, Detachment[d].detachment_type>> : d \in BuilderTemplates}

AddDetachment == Served /\ AddDetachmentOf(OwnTypeBodies) /\ Within(MaxDets, MaxEntries) /\ UNCHANGED cache
RemoveDetachment == Served /\ RemoveDetachmentOf /\ Within(MaxDets, MaxEntries) /\ UNCHANGED cache
AddEntry == Served /\ AddEntryOf(UpgradeBodies, Quantities) /\ Within(MaxDets, MaxEntries) /\ UNCHANGED cache
DeleteEntry == Served /\ DeleteEntryOf /\ Within(MaxDets, MaxEntries) /\ UNCHANGED cache
UpdateEntry == Served /\ UpdateEntryOf(EntryPatches) /\ Within(MaxDets, MaxEntries) /\ UNCHANGED cache

Next ==
    \/ AddDetachment
    \/ RemoveDetachment
    \/ AddEntry
    \/ DeleteEntry
    \/ UpdateEntry

\* no handler of this specification reads points_limit
BuilderInit == InitOf({WarlordThreshold})

Spec == BuilderInit /\ [][Next]_vars

\* --- SpecComposition: every template under every type label, with the units
\* and selections that move the auxiliary and apex budgets
AnyTypeBodies == BaseTemplates \X Labels
BudgetUnits == {1, 3}
BudgetBodies == [u \in BudgetUnits |-> IF u = 1 THEN UpgradeBodies[1] ELSE {None}]

CompAddDetachment == Served /\ AddDetachmentOf(AnyTypeBodies) /\ Within(MaxDets, MaxEntries) /\ UNCHANGED cache
CompRemoveDetachment == Served /\ RemoveDetachmentOf /\ Within(MaxDets, MaxEntries) /\ UNCHANGED cache
CompAddEntry == Served /\ AddEntryOf(BudgetBodies, {1}) /\ Within(MaxDets, MaxEntries) /\ UNCHANGED cache
CompDeleteEntry == Served /\ DeleteEntryOf /\ Within(MaxDets, MaxEntries) /\ UNCHANGED cache
CompUpdateEntry == Served /\ UpdateEntryOf(SelectionPatches(BudgetBodies)) /\ Within(MaxDets, MaxEntries) /\ UNCHANGED cache

NextComposition ==
    \/ CompAddDetachment
    \/ CompRemoveDetachment
    \/ CompAddEntry
    \/ CompDeleteEntry
    \/ CompUpdateEntry

SpecComposition == Init /\ [][NextComposition]_vars

\* --- SpecValidate: list building with POST .../validate, each detachment
\* sent with its template's own type
AllOwnTypeBodies == {<<d, Detachment[d].detachment_type>> : d \in BaseTemplates}
ValidateBodies == [u \in BudgetUnits |-> IF u = 1 THEN {None, Some(<<SelAssignment>>)} ELSE {None}]
NoBodies == [u \in BudgetUnits |-> {None}]

ValAddDetachment == Served /\ AddDetachmentOf(AllOwnTypeBodies) /\ Within(MaxDets, MaxEntries) /\ UNCHANGED cache
ValRemoveDetachment == Served /\ RemoveDetachmentOf /\ Within(MaxDets, MaxEntries) /\ UNCHANGED cache
ValAddEntry == Served /\ AddEntryOf(NoBodies, {1}) /\ Within(MaxDets, MaxEntries) /\ UNCHANGED cache
ValDeleteEntry == Served /\ DeleteEntryOf /\ Within(MaxDets, MaxEntries) /\ UNCHANGED cache
ValUpdateEntry == Served /\ UpdateEntryOf(SelectionPatches(ValidateBodies)) /\ Within(MaxDets, MaxEntries) /\ UNCHANGED cache
ValidateRoster == Served /\ validate_roster /\ Within(MaxDets, MaxEntries) /\ UNCHANGED cache

NextValidate ==
    \/ ValAddDetachment
    \/ ValRemoveDetachment
    \/ ValAddEntry
    \/ ValDeleteEntry
    \/ ValUpdateEntry
    \/ ValidateRoster

SpecValidate == Init /\ [][NextValidate]_vars

\* --- SpecStored: the requests of SpecValidate against a stored list whose one
\* entry carries an upgrades text that may not decode
InitStored ==
    /\ \E pl \in PointsLimits :
         roster = [points_limit |-> pl, total_points |-> Unit[1].base_cost, is_valid |-> 1,
                   validation_errors |-> None]
    /\ roster_detachments =
         [d \in {1} |-> [detachment |-> 1,
                         detachment_name |-> Detachment[1].name,
                         detachment_type |-> Detachment[1].detachment_type,
                         sort_order |-> 0]]
    /\ \E text \in {None, Some(<<SelAssignment>>), Garbled} :
         roster_entries =
            [e \in {1} |-> [roster_detachment |-> 1,
                            unit |-> 1,
                            unit_name |-> Unit[1].name,
                            quantity |-> 1,
                            upgrades |-> text,
                            total_cost |-> Unit[1].base_cost,
                            category |-> Unit[1].unit_type]]
    /\ response = Resp("get_roster", 200, "")
    /\ NothingLoaded

SpecStored == InitStored /\ [][NextValidate]_vars

\* --- SpecEvaluate: a list of tagged units in a Primary and in Tercio
\* detachments, with evaluate_detachment called on the catalogue's templates
\* and on a template carrying each of a set of modifier texts
\* plain rules with the values -1.0, 0.5, 1.0 and 2.0, +1.0 per tagged unit on
\* each field, and a set under a condition
EvalRules ==
    LET fields == {LineMaxId, ForcesId, COST_TYPE_AUXILIARY}
        atLeastOne == [type |-> "atLeast", value |-> PyFloat(2), field |-> "selections",
                       scope |-> "roster", childId |-> VeletarisUnlock]
    IN {Rule(t, f, v, <<>>, <<>>) : t \in {"increment", "set"}, f \in fields, v \in {-2, 1, 2, 4}}
       \cup {Rule("increment", f, 2, <<>>, <<PerVeletaris>>) : f \in fields}
       \cup {Rule("set", LineMaxId, 4, <<atLeastOne>>, <<>>)}
\* one rule, or two rules on the same field
EvalRuleLists ==
    {<<r>> : r \in EvalRules}
    \cup {p \in {<<r, s>> : r \in EvalRules, s \in EvalRules} : p[1].field = p[2].field}
EvalTemplates ==
    {Detachment[d] : d \in DOMAIN Detachment}
    \cup {[Detachment[3] EXCEPT !.costs = Some([auxiliary |-> 3]),
                                !.modifiers = Some([rules |-> rules,
                                                    constraint_id_map |-> ConstraintIdMap])] :
            rules \in EvalRuleLists}
\* an evaluation changes no row, so what follows it is what follows the state
\* before it: a run is followed up to its first error or evaluation
Unevaluated == Served /\ response.op # "evaluate_detachment"

\* the Primary and the Tercio template; a unit without a tercio category next
\* to one that carries Veletaris Tercio Unlock
EvalAddDetachment == Unevaluated /\ AddDetachmentOf({<<d, Detachment[d].detachment_type>> : d \in {1, 5}}) /\ Within(MaxDets, MaxEntries) /\ UNCHANGED cache
EvalRemoveDetachment == Unevaluated /\ RemoveDetachmentOf /\ Within(MaxDets, MaxEntries) /\ UNCHANGED cache
EvalAddEntry == Unevaluated /\ AddEntryOf([u \in {1, 2} |-> {None}], Quantities) /\ Within(MaxDets, MaxEntries) /\ UNCHANGED cache
EvalDeleteEntry == Unevaluated /\ DeleteEntryOf /\ Within(MaxDets, MaxEntries) /\ UNCHANGED cache
\* a call of ModifierEvaluator(roster).evaluate_detachment(detachment): the
\* argument and what it returned
Evaluate ==
    /\ Unevaluated
    /\ \E detachment \in EvalTemplates :
          response' = [op |-> "evaluate_detachment", status |-> 200, detail |-> "",
                       errors |-> <<>>, detachment |-> detachment,
                       result |-> evaluate_detachment(roster_entries, detachment)]
    /\ UNCHANGED <<roster, roster_detachments, roster_entries>>
    /\ UNCHANGED cache

NextEvaluate ==
    \/ EvalAddDetachment
    \/ EvalRemoveDetachment
    \/ EvalAddEntry
    \/ EvalDeleteEntry
    \/ Evaluate

SpecEvaluate == BuilderInit /\ [][NextEvaluate]_vars

\* --- SpecCost: calculate_unit_cost called on a unit and a list of selections
\* selections that name a row: an Upgrade by primary key under either key, an
\* Upgrade by its BattleScribe id, the body the front end sends, a Weapon
Selection ==
    [k \in {"ById", "ByIdKey", "ByBsId", "ByWeapon", "NoSuchRow", "NoSuchBsId", "NoKey"} |->
        CASE k = "ById" -> [upgrade_id |-> "1", quantity |-> 2]
          [] k = "ByIdKey" -> [id |-> "2"]
          [] k = "ByBsId" -> [bs_id |-> "upg-shroud", quantity |-> 3]
          [] k = "ByWeapon" -> [bs_id |-> "wpn-las", quantity |-> 2]
          \* selections that name no row: an unknown primary key, an unknown
          \* BattleScribe id, no key at all
          [] k = "NoSuchRow" -> [upgrade_id |-> "9", quantity |-> 2]
          [] k = "NoSuchBsId" -> [bs_id |-> "no-such-id", quantity |-> 1]
          [] k = "NoKey" -> [quantity |-> 1]]
SelectionShapes == {Selection[k] : k \in DOMAIN Selection} \cup {SelBlast, SelShroud}
RECURSIVE ListsUpTo(_, _)
ListsUpTo(S, n) ==
    IF n = 0 THEN {<<>>}
    ELSE LET shorter == ListsUpTo(S, n - 1)
         IN shorter \cup {Append(l, x) : l \in shorter, x \in S}

\* the call and its arguments; nothing returned yet
InitCost ==
    /\ \E pl \in PointsLimits :
         roster = [points_limit |-> pl, total_points |-> 0, is_valid |-> 0,
                   validation_errors |-> None]
    /\ roster_detachments = << >>
    /\ roster_entries = << >>
    /\ \E unit_id \in DOMAIN Unit, selected_upgrades \in ListsUpTo(SelectionShapes, MaxSelections) :
          response = [op |-> "calculate_unit_cost", status |-> 200, detail |-> "",
                      errors |-> <<>>, unit |-> unit_id,
                      selected_upgrades |-> selected_upgrades, result |-> None]
    /\ NothingLoaded

\* the call returns
UnitCost ==
    /\ response.op = "calculate_unit_cost"
    /\ IsNone(response.result)
    /\ response' = [response EXCEPT !.result =
                        Some(calculate_unit_cost(Unit[response.unit], response.selected_upgrades))]
    /\ UNCHANGED <<roster, roster_detachments, roster_entries>>
    /\ UNCHANGED cache

SpecCost == InitCost /\ [][UnitCost]_vars

\* --- SpecCache: loads and clears on one CatalogueCache
LoadSharedCatalogue ==
    /\ Len(calls) < MaxCalls
    /\ \E catalogue_name \in CatalogueNames : load_shared_catalogue(catalogue_name)
    /\ UNCHANGED <<roster, roster_detachments, roster_entries, response>>
Clear ==
    /\ Len(calls) < MaxCalls
    /\ clear
    /\ UNCHANGED <<roster, roster_detachments, roster_entries, response>>

NextCache ==
    \/ LoadSharedCatalogue
    \/ Clear

SpecCache == BuilderInit /\ [][NextCache]_vars

\* --- SpecBounds: _extract_model_bounds on the model children of a unit
\* the constraints of a child: none, a min and a max, a min alone, a max
\* alone, zero to zero, a min on the roster, and a min given twice
ModelChildren ==
    LET c(type, value, scope) ==
            [type |-> type, value |-> value, field |-> "selections", scope |-> scope]
    IN {<<>>,
        <<c("min", 1, "parent"), c("max", 1, "parent")>>,
        <<c("min", 2, "parent"), c("max", 3, "parent")>>,
        <<c("min", 2, "parent")>>,
        <<c("max", 2, "parent")>>,
        <<c("min", 0, "parent"), c("max", 0, "parent")>>,
        <<c("min", 1, "roster"), c("max", 1, "parent")>>,
        <<c("min", 1, "parent"), c("min", 3, "parent"), c("max", 3, "parent")>>}

\* the call and its argument; nothing returned yet
InitBounds ==
    /\ \E pl \in PointsLimits :
         roster = [points_limit |-> pl, total_points |-> 0, is_valid |-> 0,
                   validation_errors |-> None]
    /\ roster_detachments = << >>
    /\ roster_entries = << >>
    /\ \E model_children \in ListsUpTo(ModelChildren, MaxChildren) :
          response = [op |-> "_extract_model_bounds", status |-> 200, detail |-> "",
                      errors |-> <<>>, model_children |-> model_children, result |-> None]
    /\ NothingLoaded

\* the call returns
ExtractModelBounds ==
    /\ response.op = "_extract_model_bounds"
    /\ IsNone(response.result)
    /\ response' = [response EXCEPT !.result = Some(extract_model_bounds(response.model_children))]
    /\ UNCHANGED <<roster, roster_detachments, roster_entries>>
    /\ UNCHANGED cache

SpecBounds == InitBounds /\ [][ExtractModelBounds]_vars

\* --- SpecLoad: populate_database on what the upgrade extractor yields for
\* two units: an upgrade met directly and through a group, another upgrade,
\* a weapon, an inline upgrade and an id the catalogue does not know
Yield ==
    [k \in {"Direct", "ViaGroup", "Other", "Weapon", "Inline", "Unknown"} |->
        CASE k = "Direct" -> [upgrade_id |-> "upg-blast", upgrade_name |-> "Blast charger",
                              min_quantity |-> 0, max_quantity |-> 1]
          [] k = "ViaGroup" -> [upgrade_id |-> "upg-blast", upgrade_name |-> "Blast charger",
                                min_quantity |-> 1, max_quantity |-> 1,
                                group_name |-> Some("Wargear")]
          [] k = "Other" -> [upgrade_id |-> "upg-shroud", upgrade_name |-> "Shroud",
                             min_quantity |-> 1, max_quantity |-> 1,
                             group_name |-> Some("Wargear")]
          [] k = "Weapon" -> [upgrade_id |-> "wpn-las", upgrade_name |-> "Lasrifle"]
          [] k = "Inline" -> [upgrade_id |-> "inl-vox", upgrade_name |-> "Vox",
                              is_inline |-> TRUE]
          [] k = "Unknown" -> [upgrade_id |-> "no-such-id", upgrade_name |-> "Unknown"]]
Yields == {Yield[k] : k \in DOMAIN Yield}

\* the load is called; nothing inserted yet
InitLoad ==
    /\ \E pl \in PointsLimits :
         roster = [points_limit |-> pl, total_points |-> 0, is_valid |-> 0,
                   validation_errors |-> None]
    /\ roster_detachments = << >>
    /\ roster_entries = << >>
    /\ \E first \in ListsUpTo(Yields, MaxYield), second \in ListsUpTo(Yields, MaxYield),
          failure \in {"none", "weapons", "gst_missing", "gst_unparsable"} :
          response = [op |-> "populate_database", status |-> 200, detail |-> "",
                      errors |-> <<>>, extracted |-> <<first, second>>,
                      failure |-> failure, result |-> None]
    /\ NothingLoaded

\* the load runs to its end or to the step that raises
PopulateDatabase ==
    /\ response.op = "populate_database"
    /\ IsNone(response.result)
    /\ response' = [response EXCEPT !.result =
                        Some(populate_database(response.extracted, response.failure))]
    /\ UNCHANGED <<roster, roster_detachments, roster_entries>>
    /\ UNCHANGED cache

SpecLoad == InitLoad /\ [][PopulateDatabase]_vars

\* ------------------------------------------------------------------- claims
RECURSIVE SumOver(_, _)
SumOver(S, f) ==
    IF S = {} THEN 0
    ELSE LET x == CHOOSE y \in S : TRUE IN f[x] + SumOver(S \ {x}, f)

Accepted(op) == response.op = op /\ response.status = 200
Rejected(op) == response.op = op /\ response.status = 422

\* C1: after every roster mutation the roster's stored total_points equals the
\* sum of the stored total_cost of all RosterEntry rows of the roster.
C1_TotalPointsIsSum ==
    roster.total_points =
        SumOver(DOMAIN roster_entries, [e \in DOMAIN roster_entries |-> roster_entries[e].total_cost])

\* two entries in two detachments, the second just added
C1_Witness ==
    /\ Accepted("add_entry")
    /\ \E e, f \in DOMAIN roster_entries :
          roster_entries[e].roster_detachment # roster_entries[f].roster_detachment
    /\ roster.total_points > 0

\* C2: a request that add-detachment, add-entry or update-entry rejects with a
\* validation error leaves the stored roster, detachments and entries as they were.
C2_RejectionKeepsState ==
    [][response'.status = 422 => UNCHANGED <<roster, roster_detachments, roster_entries>>]_vars

\* an update that sets a quantity and a selection breaking a group's max was rejected
C2_Witness ==
    /\ Rejected("update_entry")
    /\ response.detail = "Upgrade group 'Wargear': selected 2, max 1"
    /\ roster_entries # << >>

\* the named upgrade groups of a unit and their members, read from the
\* UnitUpgrade rows
GroupsOf(unit_id) ==
    {Val(UnitUpgrade[i].group_name) :
        i \in {j \in 1..Len(UnitUpgrade) : /\ UnitUpgrade[j].unit = unit_id
                                          /\ ~IsNone(UnitUpgrade[j].group_name)}}
GroupRows(unit_id, g) ==
    {UnitUpgrade[i] : i \in {j \in 1..Len(UnitUpgrade) :
                               /\ UnitUpgrade[j].unit = unit_id
                               /\ UnitUpgrade[j].group_name = Some(g)}}
SelectedIdsOf(entry) ==
    LET ups == LoadsOrEmpty(entry.upgrades)
    IN {ups[i].upgrade_id : i \in {j \in 1..Len(ups) : "upgrade_id" \in DOMAIN ups[j]}}

\* C3: every stored RosterEntry satisfies, for every named upgrade group G of
\* its unit, G.min_quantity <= |selected upgrade ids of the entry \cap members
\* of G| <= G.max_quantity, entries with an empty or absent selection included.
C3_GroupsRespected ==
    \A e \in DOMAIN roster_entries :
        \A g \in GroupsOf(roster_entries[e].unit) :
            LET rows == GroupRows(roster_entries[e].unit, g)
                members == {Upgrade[r.upgrade].bs_id : r \in rows}
                count == Cardinality(SelectedIdsOf(roster_entries[e]) \cap members)
            IN \A r \in rows : r.min_quantity <= count /\ count <= r.max_quantity

\* C4: every stored RosterEntry has model_min(unit) <= quantity (model_min
\* taken as 1 when unset) and quantity <= model_max(unit) when model_max is set.
C4_QuantityWithinBounds ==
    \A e \in DOMAIN roster_entries :
        LET unit == Unit[roster_entries[e].unit]
            q == roster_entries[e].quantity
        IN /\ (IF IsNone(unit.model_min) THEN 1 ELSE Val(unit.model_min)) <= q
           /\ ~IsNone(unit.model_max) => q <= Val(unit.model_max)

\* an entry of a unit with an upper bound sits at that bound next to one whose
\* quantity an update raised above its minimum
C4_Witness ==
    /\ Accepted("update_entry")
    /\ \E e, f \in DOMAIN roster_entries :
          /\ roster_entries[e].unit = 1 /\ roster_entries[e].quantity = 1
          /\ roster_entries[f].unit = 2 /\ roster_entries[f].quantity = 2

\* C5: an entry's stored total_cost equals unit_cost(its unit, its stored
\* upgrade selection) times its stored quantity.
C5_CostIsUnitCostTimesQuantity ==
    \A e \in DOMAIN roster_entries :
        roster_entries[e].total_cost =
            calculate_unit_cost(Unit[roster_entries[e].unit],
                                LoadsOrEmpty(roster_entries[e].upgrades))
            * roster_entries[e].quantity

\* an update left an entry of two models with a paid upgrade: (100 + 10) * 2
C5_Witness ==
    /\ Accepted("update_entry")
    /\ \E e \in DOMAIN roster_entries :
          /\ roster_entries[e].unit = 2
          /\ roster_entries[e].quantity = 2
          /\ roster_entries[e].upgrades = Some(<<SelBlast>>)
          /\ roster_entries[e].total_cost = 220


\* the detachment row a step has just created
NewDet == roster_detachments'[CHOOSE d \in DOMAIN roster_detachments' :
                                d \notin DOMAIN roster_detachments]
DetCreated == \E d \in DOMAIN roster_detachments' : d \notin DOMAIN roster_detachments

IsWarlord(name) == Contains(name, "Warlord")
NonWarlordPrimaries ==
    {d \in DOMAIN Detachment : /\ Detachment[d].detachment_type = "Primary"
                               /\ ~IsWarlord(Detachment[d].name)}
\* the roster holds a detachment stored with type Primary
HasPrimary == \E d \in DOMAIN roster_detachments : roster_detachments[d].detachment_type = "Primary"
HasWarlord == \E d \in DOMAIN roster_detachments : IsWarlord(roster_detachments[d].detachment_name)

C7_WarlordOnlyOnce ==
    [][(DetCreated /\ IsWarlord(NewDet.detachment_name))
         => (roster.points_limit >= WarlordThreshold /\ ~HasWarlord)]_vars

\* used and available budget of a kind, counted from the stored rows
UsedBudget(kind) ==
    SumOver(DOMAIN roster_detachments,
            [d \in DOMAIN roster_detachments |->
                LET c == Detachment[roster_detachments[d].detachment].costs
                IN IF IsNone(c) THEN 0 ELSE Get(Val(c), kind, 0)])
CategoryValue(unit_id, kind) ==
    LET cats == LoadsOrEmpty(Unit[unit_id].budget_categories)
        hits == {i \in 1..Len(cats) : /\ cats[i] \in DOMAIN BUDGET_CATEGORIES
                                      /\ BUDGET_CATEGORIES[cats[i]].target = kind}
    IN SumOver(hits, [i \in hits |-> BUDGET_CATEGORIES[cats[i]].value])
DecrementValue(entry, kind) ==
    LET ups == LoadsOrEmpty(entry.upgrades)
        hits == {i \in 1..Len(ups) : /\ Get(ups[i], "upgrade_id", "") \in DOMAIN BUDGET_DECREMENTS
                                     /\ BUDGET_DECREMENTS[ups[i].upgrade_id].target = kind}
    IN SumOver(hits, [i \in hits |-> BUDGET_DECREMENTS[ups[i].upgrade_id].value
                                      * Get(ups[i], "quantity", 1)])
AvailableBudget(kind) ==
    SumOver(DOMAIN roster_entries,
            [e \in DOMAIN roster_entries |->
                CategoryValue(roster_entries[e].unit, kind) * roster_entries[e].quantity
                + DecrementValue(roster_entries[e], kind)])
CostOf(detachment_id, kind) ==
    LET c == Detachment[detachment_id].costs
    IN IF IsNone(c) THEN 0 ELSE Get(Val(c), kind, 0)

\* C8: a detachment whose auxiliary (apex) cost is positive is accepted only
\* if that cost is at most available minus used auxiliary (apex) budget, so
\* the add leaves used at most available.
C8_BudgetRespected ==
    [][DetCreated =>
         \A kind \in {"auxiliary", "apex"} :
            CostOf(NewDet.detachment, kind) > 0 =>
               /\ CostOf(NewDet.detachment, kind) <= AvailableBudget(kind) - UsedBudget(kind)
               /\ UsedBudget(kind)' <= AvailableBudget(kind)']_vars

\* an auxiliary-cost detachment was accepted against a budget that an entry
\* provides
C8_Witness ==
    /\ Accepted("add_detachment")
    /\ UsedBudget("auxiliary") = 1
    /\ AvailableBudget("auxiliary") = 1


\* the detachments stored with type Primary
PrimaryRows == {d \in DOMAIN roster_detachments :
                    roster_detachments[d].detachment_type = "Primary"}
Reports(errs, m) == \E i \in 1..Len(errs) : errs[i] = m
OverBudget(kind) == UsedBudget(kind) > AvailableBudget(kind)
WarlordBelowThreshold ==
    /\ \E d \in PrimaryRows : IsWarlord(roster_detachments[d].detachment_name)
    /\ roster.points_limit < WarlordThreshold

\* C9: validate_composition reports "Roster must have a Primary Detachment"
\* exactly when the roster has no Primary, "Too many Primary Detachments"
\* exactly when it has more than the maximum, and a budget-exceeded error for
\* each of auxiliary and apex exactly when used exceeds available; with one
\* Primary, both budgets respected and no Warlord below the threshold it
\* reports nothing. The validate operation returns these errors first.
C9_CompositionErrors ==
    LET errs == validate_composition(roster, roster_detachments, roster_entries)
        P == Cardinality(PrimaryRows)
    IN /\ (P = 0) <=> Reports(errs, "Roster must have a Primary Detachment")
       /\ (P > PrimaryMax) <=>
            Reports(errs, "Too many Primary Detachments: " \o ToString(P) \o "/"
                          \o ToString(PrimaryMax))
       /\ OverBudget("auxiliary") <=>
            Reports(errs, "Auxiliary budget exceeded: " \o ToString(UsedBudget("auxiliary"))
                          \o "/" \o ToString(AvailableBudget("auxiliary")))
       /\ OverBudget("apex") <=>
            Reports(errs, "Apex budget exceeded: " \o ToString(UsedBudget("apex"))
                          \o "/" \o ToString(AvailableBudget("apex")))
       /\ (P = 1 /\ ~OverBudget("auxiliary") /\ ~OverBudget("apex") /\ ~WarlordBelowThreshold)
            => errs = <<>>
       /\ Len(errs) <= 4
       /\ Accepted("validate") =>
            /\ Len(response.errors) >= Len(errs)
            /\ SubSeq(response.errors, 1, Len(errs)) = errs

\* a roster with one Primary and a used auxiliary budget was validated and
\* no composition error came back
C9_Witness ==
    /\ Accepted("validate")
    /\ Cardinality(PrimaryRows) = 1
    /\ UsedBudget("auxiliary") = 1
    /\ validate_composition(roster, roster_detachments, roster_entries) = <<>>

\* the requests that change the contents of a roster
Mutations == {"add_detachment", "remove_detachment", "add_entry", "delete_entry",
              "update_entry"}

\* C10: after every accepted mutation the stored is_valid and
\* validation_errors are those roster validation computes on the current
\* contents.
C10_CachedValidityCurrent ==
    (response.op \in Mutations /\ response.status = 200) =>
        [is_valid |-> roster.is_valid, validation_errors |-> roster.validation_errors]
            = ValidityOf(roster_validate(roster, roster_detachments, roster_entries))

\* C11: an internal error during validation is not propagated: the validate
\* operation answers and the roster ends marked invalid with a stored
\* validation-error message.
C11_InternalErrorMarksInvalid ==
    (response.op = "validate" /\ get_budget_raises(roster_entries)) =>
        /\ response.status = 200
        /\ roster.is_valid = 0
        /\ ~IsNone(roster.validation_errors)
\* the argument and the result of the evaluation a step has just made
Evaluated == response.op = "evaluate_detachment"
RulesOf(detachment) ==
    IF IsNone(detachment.modifiers) THEN <<>> ELSE Val(detachment.modifiers).rules
WithRules(detachment, rules) ==
    [detachment EXCEPT !.modifiers = Some([Val(@) EXCEPT !.rules = rules])]
BaseCosts(detachment) == IF IsNone(detachment.costs) THEN <<>> ELSE Val(detachment.costs)
\* the slot table row of a slot
SlotRow(constraints, s) ==
    constraints[CHOOSE i \in 1..Len(constraints) : constraints[i].slot = s]

\* C12: for a detachment with no stored modifier rules, in every roster
\* state, evaluate_detachment returns the detachment's base slot table and
\* base cost table and does not bound the number of instances.
C12_NoRulesIsIdentity ==
    (Evaluated /\ IsNone(response.detachment.modifiers)) =>
        /\ response.result.constraints = response.detachment.constraints
        /\ response.result.costs = BaseCosts(response.detachment)
        /\ response.result.max_instances >= 999

\* an auxiliary template without rules was evaluated against a list that
\* holds tagged units
C12_Witness ==
    /\ Evaluated
    /\ response.detachment = Detachment[3]
    /\ response.result.costs = [auxiliary |-> 1]
    /\ \E e \in DOMAIN roster_entries : roster_entries[e].unit = 2

\* the quantities of the entries whose unit is tagged with the category
TaggedQuantity(cat) ==
    SumOver(DOMAIN roster_entries,
            [e \in DOMAIN roster_entries |->
                IF Contains(LoadsOrEmpty(Unit[roster_entries[e].unit].tercio_categories), cat)
                THEN roster_entries[e].quantity ELSE 0])
PlusOnePerVeletaris == <<Rule("increment", LineMaxId, 2, <<>>, <<PerVeletaris>>)>>

\* C13: for a detachment whose only rule is an increment of +1 on the max of
\* slot Line per selection of category Veletaris Tercio Unlock, the evaluated
\* max of Line is its base max plus the quantities of the entries whose unit
\* is tagged with the category, its min is the base min, and the evaluation
\* leaves the stored entries (the fill of every slot) as they were.
C13_MaxGrowsPerTaggedUnit ==
    /\ []((Evaluated /\ RulesOf(response.detachment) = PlusOnePerVeletaris) =>
            LET base == SlotRow(response.detachment.constraints, "Line").limits
                now == SlotRow(response.result.constraints, "Line").limits
            IN /\ now.max = base.max + TaggedQuantity(VeletarisUnlock)
               /\ now.min = base.min
               /\ Len(response.result.constraints) = Len(response.detachment.constraints))
    /\ [][response'.op = "evaluate_detachment"
            => UNCHANGED <<roster, roster_detachments, roster_entries>>]_vars

\* three tagged models in a Primary whose Line slot they fill, next to an
\* untagged unit: the evaluated max is the base max 2 plus 3
C13_Witness ==
    /\ Evaluated
    /\ RulesOf(response.detachment) = PlusOnePerVeletaris
    /\ TaggedQuantity(VeletarisUnlock) = 3
    /\ SlotRow(response.result.constraints, "Line").limits.max = 5
    /\ \E d \in DOMAIN roster_detachments :
          LET slot == get_slot_status(roster_detachments, roster_entries, d)["Line"]
          IN slot.filled = slot.max
\* the rules of a list that apply in the current roster state
Applies(rule) == check_conditions(roster_entries, rule.conditions)
SetRules(rules) == {i \in 1..Len(rules) : rules[i].type = "set"}
IncrementRules(rules) == {i \in 1..Len(rules) : rules[i].type = "increment"}

\* C14: when a set rule and an increment rule that both apply target the
\* same field, the set is applied after the increment whatever their order
\* in the list: the result is the one of the set rule alone, and the same
\* for both orders.
C14_SetAppliedAfterIncrements ==
    LET rules == RulesOf(response.detachment)
    IN (/\ Evaluated
        /\ Len(rules) = 2
        /\ Cardinality(SetRules(rules)) = 1
        /\ Cardinality(IncrementRules(rules)) = 1
        /\ rules[1].field = rules[2].field
        /\ Applies(rules[1]) /\ Applies(rules[2]))
       => LET set == rules[CHOOSE i \in SetRules(rules) : TRUE]
          IN /\ response.result =
                   evaluate_detachment(roster_entries, WithRules(response.detachment, <<set>>))
             /\ response.result =
                   evaluate_detachment(roster_entries,
                                       WithRules(response.detachment, <<rules[2], rules[1]>>))

\* twice what the increments of a rule list add up to, each rule's value
\* taken once per selection it repeats on
IncrementHalves(rules) ==
    SumSeq([i \in 1..Len(rules) |->
              rules[i].value.halves
              * (IF Len(rules[i].repeats) = 0 THEN 1
                 ELSE TaggedQuantity(rules[i].repeats[1].childId))])
\* a value that is not a whole number and lies below 1.0
FractionBelowOne(value) == value.halves % 2 = 1 /\ value.halves < 2

\* C15: for the auxiliary cost with base cost c, one set rule with a
\* fractional value v below 1.0 gives round(c * v); a set rule with any other
\* value, and the total of increment rules whatever its sign or size, gives c
\* plus the integer adjustment.
C15_CostAdjustment ==
    LET rules == RulesOf(response.detachment)
        c == Get(BaseCosts(response.detachment), "auxiliary", 0)
    IN (/\ Evaluated
        /\ Len(rules) > 0
        /\ \A i \in 1..Len(rules) : rules[i].field = COST_TYPE_AUXILIARY /\ Applies(rules[i])
        /\ \/ /\ Len(rules) = 1 /\ SetRules(rules) = {1}
              /\ FractionBelowOne(rules[1].value) \/ rules[1].value.halves >= 2
           \/ SetRules(rules) = {})
       => response.result.costs.auxiliary =
            IF SetRules(rules) = {1}
            THEN IF FractionBelowOne(rules[1].value)
                 THEN PyRoundTimes(c, rules[1].value)
                 ELSE c + PyTrunc(rules[1].value)
            ELSE c + PyTrunc(PyFloat(IncrementHalves(rules)))

\* the copies of a template the roster holds
Copies(template) ==
    Cardinality({d \in DOMAIN roster_detachments :
                    roster_detachments[d].detachment = template})

\* C16: a copy of a template is added only while the roster holds fewer
\* copies of it than the max instances the template evaluates to in the
\* current roster state; with max instances 0 no copy is added.
C16_InstancesBoundCopies ==
    [][DetCreated =>
         Copies(NewDet.detachment)
            < evaluate_detachment(roster_entries, Detachment[NewDet.detachment]).max_instances]_vars
\* the call of calculate_unit_cost has returned
Costed == response.op = "calculate_unit_cost" /\ ~IsNone(response.result)
\* the row each selection identifies, read off the catalogue by hand
Identified ==
    {<<Selection["ById"], Upgrade["1"]>>, <<Selection["ByIdKey"], Upgrade["2"]>>,
     <<Selection["ByBsId"], Upgrade["2"]>>, <<SelBlast, Upgrade["1"]>>,
     <<Selection["ByWeapon"], Weapon["1"]>>}
Identifies(sel) == \E p \in Identified : p[1] = sel
RowOf(sel) == (CHOOSE p \in Identified : p[1] = sel)[2]
QuantityOf(sel) == IF "quantity" \in DOMAIN sel THEN sel.quantity ELSE 1

Unresolvable == {Selection["NoSuchRow"], Selection["NoSuchBsId"], Selection["NoKey"]}
RECURSIVE Resolvable(_)
\* a list without its unresolvable selections
Resolvable(sels) ==
    IF Len(sels) = 0 THEN <<>>
    ELSE (IF sels[1] \in Unresolvable THEN <<>> ELSE <<sels[1]>>) \o Resolvable(Tail(sels))

\* C18: a selection that matches no Upgrade and no Weapon adds nothing and
\* the call still returns: at every position of that selection in the list,
\* unit_cost is what it is for the remaining selections alone.
C18_UnresolvableAddsNothing ==
    Costed =>
        Val(response.result) =
            calculate_unit_cost(Unit[response.unit], Resolvable(response.selected_upgrades))

\* an unresolvable selection ahead of a resolvable one: 85 + 2 * 10
C18_Witness ==
    /\ Costed
    /\ response.unit = 1
    /\ response.selected_upgrades = <<Selection["NoSuchRow"], Selection["ById"]>>
    /\ Val(response.result) = 105
\* call j loads the catalogue call i loaded, with no clear in between
LoadsAgain(i, j) ==
    /\ i < j
    /\ calls[i].op = "load_shared_catalogue"
    /\ calls[j].op = "load_shared_catalogue"
    /\ calls[i].catalogue_name = calls[j].catalogue_name
    /\ \A k \in i..j : calls[k].op # "clear"
\* the step is a load of a catalogue loaded before with no clear since
LoadingAgain ==
    /\ Len(calls') = Len(calls) + 1
    /\ calls'[Len(calls')].op = "load_shared_catalogue"
    /\ \E i \in 1..Len(calls) :
          /\ calls[i].op = "load_shared_catalogue"
          /\ calls[i].catalogue_name = calls'[Len(calls')].catalogue_name
          /\ \A k \in i..Len(calls) : calls[k].op # "clear"

Cached(i) == calls[i].parsed /\ calls[i].catalogue_name \in DOMAIN CatalogueFiles
             /\ ~IsMalformed(CatalogueFiles[calls[i].catalogue_name])

Populated == response.op = "populate_database" /\ ~IsNone(response.result)

\* C20: after a bulk load the persisted unit-upgrade links hold at most one
\* row for each (unit, upgrade) pair, also when the extractor yields the same
\* upgrade for a unit more than once.
C20_LinksUniquePerPair ==
    (Populated /\ response.failure = "none") =>
        LET rows == Val(response.result).tables.UnitUpgrade
        IN \A i, j \in 1..Len(rows) :
              (rows[i].unit = rows[j].unit /\ rows[i].upgrade = rows[j].upgrade) => i = j

\* the extractor met the same upgrade of unit 1 directly and through a
\* group, and unit 2 took it too: one row per unit, the direct one for unit 1
C20_Witness ==
    /\ Populated
    /\ response.extracted = << <<Yield["Direct"], Yield["ViaGroup"]>>, <<Yield["ViaGroup"]>> >>
    /\ response.failure = "none"
    /\ Len(Val(response.result).tables.UnitUpgrade) = 2
    /\ Val(response.result).tables.UnitUpgrade[1].unit = 1
    /\ Val(response.result).tables.UnitUpgrade[1].group_name = None
    /\ Val(response.result).tables.UnitUpgrade[2].unit = 2

\* the source ids the load materializes rows for: the Weapon rows and the
\* inline definitions the extractor yields
Materialized ==
    {Weapon[w].bs_id : w \in DOMAIN Weapon}
    \cup {uu.upgrade_id : uu \in {y \in Yields : Get(y, "is_inline", FALSE)}}

\* C21: after a bulk load at most one Upgrade row carries the id of a Weapon
\* row or of an inline definition, however many units link to that id and
\* however many times one unit links to it.
C21_MaterializedOnce ==
    (Populated /\ ~Val(response.result).raised) =>
        LET bs_ids == Val(response.result).tables.Upgrade
        IN \A i, j \in 1..Len(bs_ids) :
              (bs_ids[i] \in Materialized /\ bs_ids[i] = bs_ids[j]) => i = j

\* unit 1 links twice to a weapon and unit 2 once: one Upgrade row for it,
\* the fourth of the table, and one link per unit to that row
C21_Witness ==
    /\ Populated
    /\ response.failure = "none"
    /\ response.extracted = << <<Yield["Weapon"], Yield["Weapon"]>>, <<Yield["Weapon"]>> >>
    /\ Val(response.result).tables.Upgrade =
          <<"upg-blast", "upg-shroud", "c857-47bd-6a4f-fcf8", "wpn-las">>
    /\ Len(Val(response.result).tables.UnitUpgrade) = 2
    /\ \A i \in 1..2 : Val(response.result).tables.UnitUpgrade[i].upgrade = "4"

\* C22: a bulk load in which a step fails raises to its caller and leaves
\* every catalogue table as it was, also when the step is the reading of a
\* missing or unparsable game-system file.
C22_ReloadAllOrNothing ==
    (Populated /\ response.failure # "none") =>
        /\ Val(response.result).raised
        /\ Val(response.result).tables = StoredCatalogue

\* the validate request has been answered
Validated == response.op = "validate" /\ response.status = 200
\* the sum of the quantities of the entries of a detachment in a slot
FilledCount(rdId, slot) ==
    LET mine == {e \in DOMAIN roster_entries :
                    /\ roster_entries[e].roster_detachment = rdId
                    /\ roster_entries[e].category = slot}
    IN SumOver(mine, [e \in mine |-> roster_entries[e].quantity])
\* the list is one Primary detachment with every slot between its minimum and
\* its maximum, within the auxiliary and apex budgets and the points limit
OnePrimaryWithinLimits ==
    /\ Cardinality(DOMAIN roster_detachments) = 1
    /\ \A d \in DOMAIN roster_detachments :
          /\ roster_detachments[d].detachment_type = "Primary"
          /\ \A i \in 1..Len(Detachment[roster_detachments[d].detachment].constraints) :
                LET c == Detachment[roster_detachments[d].detachment].constraints[i]
                IN /\ c.limits.min <= FilledCount(d, c.slot)
                   /\ FilledCount(d, c.slot) <= c.limits.max
    /\ LET budget == get_budget(roster, roster_detachments, roster_entries)
       IN /\ budget.auxiliary_used <= budget.auxiliary_budget
          /\ budget.apex_used <= budget.apex_budget
    /\ roster.total_points <= roster.points_limit
\* the error of an empty slot with minimum n
MinimumError(d, slot, n) ==
    "[" \o Join(roster_detachments[d].detachment_name) \o "] " \o slot
    \o ": minimum " \o ToString(n) \o " required, found 0"
\* a validation that follows the deletion of an entry reports every slot of
\* minimum 1 or more that the deletion left empty
AfterDeletionReportsMinimum ==
    (/\ response.op = "delete_entry" /\ response.status = 200
     /\ response'.op = "validate" /\ response'.status = 200)
    => \A d \in DOMAIN roster_detachments :
          \A i \in 1..Len(Detachment[roster_detachments[d].detachment].constraints) :
             LET c == Detachment[roster_detachments[d].detachment].constraints[i]
             IN (c.limits.min >= 1 /\ FilledCount(d, c.slot) = 0)
                => \E k \in 1..Len(response'.errors) :
                      response'.errors[k] = MinimumError(d, c.slot, c.limits.min)

C24_BoundsAreSums ==
    (response.op = "_extract_model_bounds" /\ ~IsNone(response.result)) =>
        LET children == response.model_children
            b == [i \in 1..Len(children) |-> child_bounds(children[i])]
            sum_min == SumSeq([i \in 1..Len(children) |-> b[i].child_min])
            sum_max == SumSeq([i \in 1..Len(children) |-> Val(b[i].child_max)])
        IN Val(response.result) =
              IF Len(children) = 0 THEN [model_min |-> 1, model_max |-> None]
              ELSE [model_min |-> MaxOf({sum_min, 1}),
                    model_max |-> IF \E i \in 1..Len(children) : IsNone(b[i].child_max)
                                  THEN None ELSE Some(sum_max)]

\* the entry row a step has just created
EntryCreated == \E e \in DOMAIN roster_entries' : e \notin DOMAIN roster_entries
NewEntry == roster_entries'[CHOOSE e \in DOMAIN roster_entries' : e \notin DOMAIN roster_entries]
\* the slot table of a stored detachment and the max of one of its slots
SlotsOf(d) == {c.slot : c \in {Detachment[roster_detachments[d].detachment].constraints[i] :
                    i \in 1..Len(Detachment[roster_detachments[d].detachment].constraints)}}
SlotMax(d, slot) ==
    LET cs == Detachment[roster_detachments[d].detachment].constraints
    IN (CHOOSE c \in {cs[i] : i \in 1..Len(cs)} : c.slot = slot).limits.max
\* the details of the two refusals
SlotFullDetail(d, slot) ==
    slot \o " slot full (" \o ToString(FilledCount(d, slot)) \o "/" \o ToString(SlotMax(d, slot))
    \o ") in " \o Join(roster_detachments[d].detachment_name)
NoSlotDetail(d, u) ==
    "'" \o Join(Unit[u].name) \o "' (" \o Unit[u].unit_type \o ") has no slot in "
    \o Join(roster_detachments[d].detachment_name)

ClauseOf(d, slot) == Val(Detachment[roster_detachments[d].detachment].unit_restrictions)[slot]
RestrictedSlots(d) ==
    IF IsNone(Detachment[roster_detachments[d].detachment].unit_restrictions) THEN {}
    ELSE DOMAIN Val(Detachment[roster_detachments[d].detachment].unit_restrictions)
\* the words of the unit's name occur, in a row, in the clause
NamedIn(unit_name, clause) ==
    \E i \in 0..(Len(clause) - Len(unit_name)) :
        \A j \in 1..Len(unit_name) : clause[i + j] = unit_name[j]
\* unit u is of the category of the restricted slot: the slot is keyed by
\* "<category> - <clause>"
OfSlotCategory(u, d, slot) == slot = Unit[u].unit_type \o " - " \o Join(ClauseOf(d, slot))

\* C26: add-entry of one model of a unit of the category of a restricted slot
\* that has room is accepted when the unit's name matches the slot's clause,
\* and refused with the restriction error when it does not.
C26_RestrictionDecides ==
    [][\A d \in DOMAIN roster_detachments, u \in DOMAIN Unit :
          \A slot \in RestrictedSlots(d) :
             (/\ OfSlotCategory(u, d, slot)
              /\ FilledCount(d, slot) < SlotMax(d, slot)
              /\ add_entry_to_detachment(d, u, 1, None))
             => IF NamedIn(Unit[u].name, ClauseOf(d, slot))
                THEN response'.status = 200 /\ EntryCreated
                ELSE /\ response'.status = 422
                     /\ response'.detail =
                          "'" \o Join(Unit[u].name) \o "' not allowed in " \o Unit[u].unit_type
                          \o " slot (restricted to: " \o Join(ClauseOf(d, slot)) \o ")"]_vars

\* C27: in a list built through accepted requests the filled count of every
\* slot of every detachment, the sum of the quantities of its entries, is at
\* most the slot's max.
C27_FilledWithinMax ==
    \A d \in DOMAIN roster_detachments :
        \A slot \in SlotsOf(d) : FilledCount(d, slot) <= SlotMax(d, slot)

\* C28: a list built through accepted add-detachment requests holds at most
\* one detachment whose template is a non-Warlord Primary, whatever type
\* label the requests carried.
C28_OnePrimaryTemplate ==
    Cardinality({d \in DOMAIN roster_detachments :
                    roster_detachments[d].detachment \in NonWarlordPrimaries}) <= 1

\* the too-many-Primary and budget-exceeded errors of a budget
AgreementErrors(budget) ==
    {"Too many Primary Detachments: " \o ToString(budget.primary_count) \o "/"
        \o ToString(PrimaryMax),
     "Auxiliary budget exceeded: " \o ToString(budget.auxiliary_used) \o "/"
        \o ToString(budget.auxiliary_budget),
     "Apex budget exceeded: " \o ToString(budget.apex_used) \o "/"
        \o ToString(budget.apex_budget)}

\* C29: when validate_composition reports nothing for a list and
\* can_add_detachment accepts a template, validate_composition of the list
\* with that template added under its own type reports neither too many
\* Primary detachments nor an exceeded budget, a Warlord added next to the
\* Primary included.
C29_CanAddAgreesWithValidate ==
    [][(/\ validate_composition(roster, roster_detachments, roster_entries) = <<>>
        /\ DetCreated
        /\ NewDet.detachment_type = Detachment[NewDet.detachment].detachment_type)
       => LET errors == validate_composition(roster', roster_detachments', roster_entries')
              budget == get_budget(roster', roster_detachments', roster_entries')
          IN \A k \in 1..Len(errors) : errors[k] \notin AgreementErrors(budget)]_vars

\* C30: whatever the interleaving of add-detachment and remove-detachment,
\* the sort_order values of the detachments of the list are pairwise
\* distinct, and grow in the order the detachments were added.
C30_SortOrderDistinct ==
    \A d, e \in DOMAIN roster_detachments :
        d < e => roster_detachments[d].sort_order < roster_detachments[e].sort_order

====
